---- MODULE Spec2Model ----
(***************************************************************************)
(* The download -> split check -> sequential upload -> cleanup pipeline of *)
(* DirectDownload-Tg (downloaders.py, upload.py, utils.py), as one call of *)
(* a batch function: download_files_nzbcloud,                              *)
(* download_multiple_files_deltaleech or download_multiple_files_bitso.    *)
(* Spec is the batch; SplitSpec is one call of split_if_needed on its own, *)
(* UploadSpec one call of upload_file_pyrogram on its own, step by step.   *)
(*                                                                         *)
(* Strings are sequences of characters.  The outcomes of the collaborators *)
(* (HTTP, Telegram sends and edits, ffprobe/ffmpeg, the file system) are   *)
(* inputs of the actions, drawn with \E.  The disk variables describe the  *)
(* files of the job in progress (display names are taken to be distinct).  *)
(***************************************************************************)
EXTENDS Integers, Sequences, FiniteSets, TLC

\* ------------------------------------------------------------------ bounds
MaxJobs == 3
MaxChunks == 2
MaxSegs == 2
MaxWait == 2
MaxCallbacks == 3
MaxName == 4
MaxTail == 2
MaxFailed == 2
MaxReports == 2
MaxLines == 2
MaxTasks == 2
MaxRuns == 2
MaxFew == 3
ManySegs == 1001

\* ------------------------------------------------------- program constants
\* downloaders.py:34, minimum seconds between two progress edits
DL_THROTTLE == 5
UP_THROTTLE == 6
NAME_LIMIT == 250

\* ----------------------------------------------------------------- strings
Range(s) == {s[k] : k \in 1..Len(s)}

Min(a, b) == IF a <= b THEN a ELSE b

\* str.strip(): leading and trailing white space removed
RECURSIVE LStrip(_)
LStrip(s) == IF s # <<>> /\ Head(s) = " " THEN LStrip(Tail(s)) ELSE s

RECURSIVE RStrip(_)
RStrip(s) ==
    IF s # <<>> /\ s[Len(s)] = " " THEN RStrip(SubSeq(s, 1, Len(s) - 1)) ELSE s

Strip(s) == RStrip(LStrip(s))

\* f"No URL for {file_name}" (the literal is one token)
NoUrlFor(file_name) == <<"No URL for ">> \o file_name

\* ------------------------------------------------------------------ inputs
Services == {"nzbcloud", "deltaleech", "bitso"}

\* (source URL, display name) pairs as the caller passes them: a padded URL,
\* a plain URL, a job whose name is blank, a job whose URL is empty
JobKinds ==
    { << <<" ", "a">>, <<"n">> >>,
      << <<"b">>, <<"n">> >>,
      << <<"a">>, <<" ">> >>,
      << <<>>, <<"n">> >> }

\* the lists of at most n distinct job kinds, in every order
RECURSIVE JobLists(_)
JobLists(n) ==
    IF n = 0 THEN {<<>>}
    ELSE LET shorter == JobLists(n - 1)
         IN  shorter \cup
             UNION {{Append(l, j) : j \in JobKinds \ Range(l)} :
                    l \in {x \in shorter : Len(x) = n - 1}}

Firsts(l) == [k \in 1..Len(l) |-> l[k][1]]
Seconds(l) == [k \in 1..Len(l) |-> l[k][2]]
DropLast(s) == SubSeq(s, 1, Len(s) - 1)

\* the (urls, file_names) argument pairs: equal length, or one list one short
Inputs ==
    LET ls == JobLists(MaxJobs)
    IN  {<<Firsts(l), Seconds(l)>> : l \in ls}
        \cup {<<Firsts(l), DropLast(Seconds(l))>> : l \in ls \ {<<>>}}
        \cup {<<DropLast(Firsts(l)), Seconds(l)>> : l \in ls \ {<<>>}}

VARIABLES
    svc,                    \* which batch function was called
    urls, file_names,       \* its arguments
    upload_enabled,         \* context.bot_data['upload_enabled']
    delete_after_upload,    \* context.bot_data['delete_after_upload']
    pc,                     \* position of the batch coroutine
    idx,                    \* 1-based index of the job of the for loop
    failed_sources,         \* the list the batch function accumulates
    result,                 \* the list returned (empty until the return)
    status_message_id,      \* TRUE when the initial status message was sent
    dl_status_msg,          \* context.chat_data[f'dl_status_msg_{id}']
    since_edit,             \* min(DL_THROTTLE, now - last_download_edit_time)
    downloaded,             \* chunks written so far
    parts,                  \* what split_if_needed returned
    part_i,                 \* index of the part being uploaded (enumerate)
    all_ok,                 \* the flag of the upload loop
    file,                   \* the job's source file exists on disk
    segs,                   \* the segment files of the job on disk
    parts_dir,              \* the <name>_parts directory exists
    fetchLog,               \* history: jobs whose fetch was started, in order
    getLog,                 \* history: jobs for which requests.get was called
    done,                   \* history: jobs that fully completed
    log,                    \* history: phases started in the current job
    sent,                   \* history: artifacts of the job whose send succeeded
    upload_ok,              \* history: what each upload call of the job returned
    last,                   \* history: how the job that just ended went
    split_call,             \* SplitSpec: one call of split_if_needed
    up,                     \* UploadSpec: one call of upload_file_pyrogram
    transfer,               \* ProgressSpec: the progress callbacks of a transfer
    conv,                   \* ConvSpec: the conversation and the tasks it starts
    report,                 \* ReportSpec: one call of run_and_report_process
    fname,                  \* NameSpec: calls of clean_filename
    cleanup,                \* CleanupSpec: one call of cleanup_split_parts
    remux                   \* RemuxSpec: the remux of jobs of one display name

vars == <<svc, urls, file_names, upload_enabled, delete_after_upload, pc, idx,
          failed_sources, result, status_message_id, dl_status_msg, since_edit,
          downloaded, parts, part_i, all_ok, file, segs, parts_dir,
          fetchLog, getLog, done, log, sent, upload_ok, last, split_call, up,
          transfer, conv, report, fname, cleanup, remux>>

\* the calls studied on their own: idle while the batch runs
units == <<transfer, conv, report, fname, cleanup, remux>>
calls == <<split_call, up, units>>
Idle == [pc |-> "idle"]
UnitsAtRest ==
    /\ transfer = Idle
    /\ conv = Idle
    /\ report = Idle
    /\ fname = Idle
    /\ cleanup = Idle
    /\ remux = Idle

config == <<svc, urls, file_names, upload_enabled, delete_after_upload>>
fetchvars == <<status_message_id, dl_status_msg, since_edit, downloaded>>
jobvars == <<fetchvars, parts, part_i, all_ok>>
history == <<fetchLog, getLog, done, log, sent, upload_ok, last>>
disk == <<file, segs, parts_dir>>

NoParts == [ret |-> "unset", n |-> 0]
NoLast == [job |-> 0, outcome |-> "none", cause |-> "none"]

Init ==
    /\ svc \in Services
    /\ \E in \in Inputs : urls = in[1] /\ file_names = in[2]
    /\ upload_enabled \in BOOLEAN
    /\ delete_after_upload \in BOOLEAN
    /\ pc = "call"
    /\ idx = 1
    /\ failed_sources = <<>>
    /\ result = <<>>
    /\ status_message_id = FALSE
    /\ dl_status_msg = FALSE
    /\ since_edit = DL_THROTTLE
    /\ downloaded = 0
    /\ parts = NoParts
    /\ part_i = 0
    /\ all_ok = TRUE
    /\ file = FALSE
    /\ segs = {}
    /\ parts_dir = FALSE
    /\ fetchLog = <<>>
    /\ getLog = <<>>
    /\ done = {}
    /\ log = <<>>
    /\ sent = {}
    /\ upload_ok = <<>>
    /\ last = NoLast
    /\ split_call = Idle
    /\ up = Idle
    /\ UnitsAtRest

\* zip(urls, filenames): the pairs the for loop iterates over
NJobs == Min(Len(urls), Len(file_names))
Url(j) == Strip(urls[j])
FileName(j) == Strip(file_names[j])

\* ------------------------------------------------- failure bookkeeping
\* mutant: the failure is not recorded
RecordFailureLost(fs, url) == fs

\* "if url not in failed_sources: failed_sources.append(url)"
RecordFailure(fs, url) == IF url \in Range(fs) THEN fs ELSE Append(fs, url)

\* the guard at the top of the loop body: which jobs are skipped unfetched
SkipJob(s, url, file_name) ==
    CASE s = "nzbcloud" -> url = <<>> \/ file_name = <<>>
      [] s = "deltaleech" -> file_name = <<>>
      [] OTHER -> FALSE

\* what a skipped job appends (no membership test on these paths)
SkipRecord(s, fs, url, file_name) ==
    IF s = "nzbcloud" /\ url = <<>> THEN Append(fs, NoUrlFor(file_name))
    ELSE Append(fs, url)

\* os.makedirs failed: nzbcloud appends unconditionally; download_file_deltaleech
\* and download_file_bitso return False and the caller appends if absent
DirFailRecord(s, fs, url) ==
    IF s = "nzbcloud" THEN Append(fs, url) ELSE RecordFailure(fs, url)

\* the length test that opens download_multiple_files_deltaleech / _bitso;
\* download_files_nzbcloud has none
RejectsBatch(s, us, fns) == s \in {"deltaleech", "bitso"} /\ Len(us) # Len(fns)

\* ------------------------------------------------------ progress edits
EditOutcomes ==
    {"ok", "not_modified", "not_found", "bad_request", "retry_after", "error"}

\* _edit_download_progress: throttle, then the edit.  A BadRequest is handled
\* by the first except clause; for any other exception the second clause
\* evaluates the unbound name PTBFlood, and the NameError leaves the helper.
edit_download_progress(since, outcome) ==
    IF since < DL_THROTTLE
    THEN [raises |-> FALSE, since |-> since, marker |-> TRUE, edited |-> FALSE]
    ELSE CASE outcome = "ok" ->
                [raises |-> FALSE, since |-> 0, marker |-> TRUE, edited |-> TRUE]
           [] outcome = "not_found" ->
                [raises |-> FALSE, since |-> since, marker |-> FALSE, edited |-> TRUE]
           [] outcome \in {"not_modified", "bad_request"} ->
                [raises |-> FALSE, since |-> since, marker |-> TRUE, edited |-> TRUE]
           [] OTHER ->
                [raises |-> TRUE, since |-> since, marker |-> TRUE, edited |-> TRUE]

\* the "DL OK" message after the last chunk: a guarded edit when the status
\* message is live, otherwise an unguarded send inside the try block
FinalMessageRaises(has_id, marker, send_ok) ==
    IF has_id /\ marker THEN FALSE ELSE ~send_ok

\* the except block of the fetch: edit the status message, on failure send a
\* new one; the send is not guarded
ErrorReportRaises(has_id, marker, edit_ok, send_ok) ==
    IF has_id /\ marker THEN ~edit_ok /\ ~send_ok ELSE ~send_ok

\* an entry of the phase log: the phase, and the part index for an upload
Phase(name, i) == <<name, i>>

\* ------------------------------------------------------------- job ends
\* the locals of the fetch are not read again once the fetch has ended: the
\* finally block pops the marker, and the next job assigns the others anew
FetchLocalsCleared ==
    /\ status_message_id' = FALSE
    /\ dl_status_msg' = FALSE
    /\ since_edit' = DL_THROTTLE
    /\ downloaded' = 0

\* the end of the loop body for one job: the bookkeeping of its outcome
EndJob(ok, cause) ==
    /\ failed_sources' =
          IF ok THEN failed_sources ELSE RecordFailure(failed_sources, Url(idx))
    /\ done' = IF ok THEN done \cup {idx} ELSE done
    /\ last' = [job |-> idx, outcome |-> IF ok THEN "done" ELSE "failed",
                cause |-> cause]
    /\ idx' = idx + 1
    /\ pc' = "loop"

\* an exception leaves the batch function: nothing is returned
Escape(cause) ==
    /\ pc' = "raised"
    /\ failed_sources' =
          IF svc = "nzbcloud" THEN RecordFailure(failed_sources, Url(idx))
          ELSE failed_sources
    /\ last' = [job |-> idx, outcome |-> "raised", cause |-> cause]
    /\ UNCHANGED <<idx, done>>

\* mutant: a failed fetch is tried again
FetchRetried(cause) ==
    /\ pc' = "fetch"
    /\ UNCHANGED <<fetchvars, failed_sources, last, idx, done>>

\* the fetch raised: the except block runs, then the finally block
FetchFailed(cause) ==
    /\ FetchLocalsCleared
    /\ \E edit_ok \in BOOLEAN, send_ok \in BOOLEAN :
         IF ErrorReportRaises(status_message_id, dl_status_msg, edit_ok, send_ok)
         THEN Escape(cause)
         ELSE EndJob(FALSE, cause)

\* ---------------------------------------------------------------- actions
\* entry of the batch function
BatchCall ==
    /\ pc = "call"
    /\ IF RejectsBatch(svc, urls, file_names)
       THEN \E send_ok \in BOOLEAN :
              IF send_ok
              THEN pc' = "returned" /\ result' = urls
              ELSE pc' = "raised" /\ result' = result
       ELSE pc' = "loop" /\ result' = result
    /\ UNCHANGED <<calls, config, idx, failed_sources, jobvars, disk, history>>

\* top of the loop body up to the initial status message
NextJob ==
    /\ pc = "loop"
    /\ idx <= NJobs
    /\ IF SkipJob(svc, Url(idx), FileName(idx))
       THEN /\ failed_sources' =
                  SkipRecord(svc, failed_sources, Url(idx), FileName(idx))
            /\ last' = [job |-> idx, outcome |-> "skipped", cause |-> "input"]
            /\ idx' = idx + 1
            /\ pc' = "loop"
            /\ status_message_id' = FALSE
            /\ log' = <<>>
            /\ UNCHANGED fetchLog
       ELSE /\ fetchLog' = Append(fetchLog, idx)
            /\ log' = <<Phase("fetch", 0)>>
            /\ \E mkdir_ok \in BOOLEAN :
                 IF mkdir_ok
                 THEN /\ pc' = "fetch"
                      /\ status_message_id' \in BOOLEAN
                      /\ UNCHANGED <<failed_sources, last, idx>>
                 ELSE /\ failed_sources' =
                            DirFailRecord(svc, failed_sources, Url(idx))
                      /\ last' = [job |-> idx, outcome |-> "failed",
                                  cause |-> "mkdir"]
                      /\ idx' = idx + 1
                      /\ pc' = "loop"
                      /\ status_message_id' = FALSE
    /\ dl_status_msg' = status_message_id'
    /\ since_edit' = DL_THROTTLE
    /\ downloaded' = 0
    /\ parts' = NoParts
    /\ part_i' = 0
    /\ all_ok' = TRUE
    /\ file' = FALSE
    /\ segs' = {}
    /\ parts_dir' = FALSE
    /\ sent' = {}
    /\ upload_ok' = <<>>
    /\ UNCHANGED <<calls, config, result, done, getLog>>

\* the loop is exhausted: return failed_sources
Return ==
    /\ pc = "loop"
    /\ idx > NJobs
    /\ pc' = "returned"
    /\ result' = failed_sources
    /\ UNCHANGED <<calls, config, idx, failed_sources, jobvars, disk, history>>

\* requests.get, raise_for_status, the reset of the throttle, open(path, "wb");
\* requests.get raises MissingSchema for an empty URL
HttpGet ==
    /\ pc = "fetch"
    /\ getLog' = Append(getLog, idx)
    /\ \E http_ok \in (IF Url(idx) = <<>> THEN {FALSE} ELSE BOOLEAN) :
         IF http_ok
         THEN /\ pc' = "stream"
              /\ since_edit' = DL_THROTTLE
              /\ file' = TRUE
              /\ UNCHANGED <<status_message_id, dl_status_msg, downloaded,
                             failed_sources, last, idx, done>>
         ELSE /\ FetchFailed("http")
              /\ UNCHANGED file
    /\ UNCHANGED <<calls, config, result, parts, part_i, all_ok, segs, parts_dir,
                   fetchLog, log, sent, upload_ok>>

\* one non-empty chunk: written, counted, and the progress helper called
StreamChunk ==
    /\ pc = "stream"
    /\ downloaded < MaxChunks
    /\ \E dt \in {0, DL_THROTTLE} :
         LET since == Min(DL_THROTTLE, since_edit + dt)
         IN  IF status_message_id /\ dl_status_msg
             THEN \E outcome \in EditOutcomes :
                    LET r == edit_download_progress(since, outcome)
                    IN  IF r.raises
                        THEN FetchFailed("progress")
                        ELSE /\ downloaded' = downloaded + 1
                             /\ since_edit' = r.since
                             /\ dl_status_msg' = r.marker
                             /\ UNCHANGED <<pc, status_message_id,
                                            failed_sources, last, idx, done>>
             ELSE /\ downloaded' = downloaded + 1
                  /\ since_edit' = since
                  /\ UNCHANGED <<pc, status_message_id, dl_status_msg,
                                 failed_sources, last, idx, done>>
    /\ UNCHANGED <<calls, config, result, parts, part_i, all_ok, disk, fetchLog,
                   getLog, log, sent, upload_ok>>

\* iter_content raised (connection lost, decode error)
StreamFail ==
    /\ pc = "stream"
    /\ FetchFailed("stream")
    /\ UNCHANGED <<calls, config, result, parts, part_i, all_ok, disk, fetchLog,
                   getLog, log, sent, upload_ok>>

\* the body ended: the "DL OK" message, download_success, the finally block
StreamEnd ==
    /\ pc = "stream"
    /\ \E final_ok \in BOOLEAN :
         IF FinalMessageRaises(status_message_id, dl_status_msg, final_ok)
         THEN FetchFailed("final_message")
         ELSE /\ pc' = "split"
              /\ FetchLocalsCleared
              /\ UNCHANGED <<failed_sources, last, idx, done>>
    /\ UNCHANGED <<calls, config, result, parts, part_i, all_ok, disk, fetchLog,
                   getLog, log, sent, upload_ok>>

\* ------------------------------------------------------------ the splitter
UploadModes == {"Video", "Audio", "Document"}

\* sizes are in bytes
MiB == 1024 * 1024

\* utils.py: TARGET_SPLIT_SIZE_BYTES = TARGET_SPLIT_SIZE_MB * 1024 * 1024
TARGET_SPLIT_SIZE_MB == 1800
TARGET_SPLIT_SIZE_BYTES == TARGET_SPLIT_SIZE_MB * MiB

\* utils.py: SPLIT_CHECK_SIZE = 1950 * 1024 * 1024
SPLIT_CHECK_SIZE == 1950 * MiB

\* "segment_duration = max(10, calculated_duration)"
MIN_SEGMENT_SECONDS == 10

\* file sizes met: small, the threshold, one byte more, and a file larger
\* than anything the destination takes
Sizes == {MiB, SPLIT_CHECK_SIZE, SPLIT_CHECK_SIZE + 1, 2001 * MiB}

\* format.bit_rate as ffprobe prints it, here in bytes per second (a bit rate
\* that is a multiple of 8): 8 Mbit/s, 8 Mibit/s and 2 Gibit/s
ByteRates == {1000000, MiB, 256 * MiB}

\* format.duration in seconds; 0 stands for a missing duration
Durations == {0, 8, 3600}

\* what one call of split_if_needed meets: the size, the extension, the
\* configured mode, ffprobe and what it reports, ffmpeg, the parts found,
\* and whether a single part is within 1 MiB of the original
SplitEnvs ==
    [size : Sizes, is_video : BOOLEAN, upload_mode : UploadModes,
     probe : {"ok", "no_bitrate", "raise"}, byte_rate : ByteRates,
     duration : Durations,
     ffmpeg : {"ok", "fail", "raise"}, found : 0..MaxSegs, similar : BOOLEAN]

\* ret: "orig" for [original_path], "segs" for the list of n parts, "none"
\* for None; dir, segs: the parts directory and the part files left on disk;
\* procs: the external commands _run_command was called with;
\* segment_time: the -segment_time given to ffmpeg, 0 when it was not run
SplitResult(ret, n, dir, on_disk, procs, segment_time) ==
    [ret |-> ret, n |-> n, dir |-> dir, segs |-> on_disk, procs |-> procs,
     segment_time |-> segment_time]

\* mutant: the size gate also sends a file of exactly the threshold to the
\* split path
LargeFromThreshold(size) == size >= SPLIT_CHECK_SIZE

\* "if file_size <= SPLIT_CHECK_SIZE: return [original_path]", negated
Large(size) == size > SPLIT_CHECK_SIZE

\* mutant: the minimum of 10 seconds is not applied
SegmentDurationNoMinimum(byte_rate) == TARGET_SPLIT_SIZE_BYTES \div byte_rate

\* "calculated_duration = int(target_size_bits / bitrate)" with both in bits;
\* "segment_duration = max(10, calculated_duration)"
SegmentDuration(byte_rate) ==
    LET calculated_duration == TARGET_SPLIT_SIZE_BYTES \div byte_rate
    IN  IF calculated_duration < MIN_SEGMENT_SECONDS
        THEN MIN_SEGMENT_SECONDS ELSE calculated_duration

\* "if duration_from_probe and segment_duration >= duration_from_probe"
Fits(e) == e.duration # 0 /\ SegmentDuration(e.byte_rate) >= e.duration

\* _split_video_dynamic_duration; an exception (a missing binary) is caught
\* by split_if_needed, which then returns None
split_video_dynamic_duration(e) ==
    CASE e.probe = "raise" -> SplitResult("none", 0, FALSE, {}, <<"ffprobe">>, 0)
      [] e.probe = "no_bitrate" ->
            SplitResult("none", 0, FALSE, {}, <<"ffprobe">>, 0)
      [] e.probe = "ok" /\ Fits(e) ->
            SplitResult("orig", 1, FALSE, {}, <<"ffprobe">>, 0)
      [] e.probe = "ok" /\ ~Fits(e) /\ e.ffmpeg = "raise" ->
            SplitResult("none", 0, TRUE, {}, <<"ffprobe", "ffmpeg">>,
                        SegmentDuration(e.byte_rate))
      [] e.probe = "ok" /\ ~Fits(e) /\ e.ffmpeg = "fail" ->
            SplitResult("none", 0, FALSE, {}, <<"ffprobe", "ffmpeg">>,
                        SegmentDuration(e.byte_rate))
      [] e.probe = "ok" /\ ~Fits(e) /\ e.ffmpeg = "ok" /\ e.found = 0 ->
            SplitResult("none", 0, TRUE, {}, <<"ffprobe", "ffmpeg">>,
                        SegmentDuration(e.byte_rate))
      [] e.probe = "ok" /\ ~Fits(e) /\ e.ffmpeg = "ok" /\ e.found = 1
            /\ e.similar ->
            SplitResult("orig", 1, FALSE, {}, <<"ffprobe", "ffmpeg">>,
                        SegmentDuration(e.byte_rate))
      [] OTHER ->
            SplitResult("segs", e.found, TRUE, 1..e.found,
                        <<"ffprobe", "ffmpeg">>,
                        SegmentDuration(e.byte_rate))

\* split_if_needed
split_if_needed(exists, e) ==
    IF ~exists THEN SplitResult("none", 0, FALSE, {}, <<>>, 0)
    ELSE IF ~Large(e.size) THEN SplitResult("orig", 1, FALSE, {}, <<>>, 0)
    ELSE IF e.is_video /\ e.upload_mode = "Video"
         THEN split_video_dynamic_duration(e)
         ELSE SplitResult("none", 0, FALSE, {}, <<>>, 0)

\* the results split_if_needed can give, by whether the file exists
SplitOutcomes == [exists \in BOOLEAN |-> {split_if_needed(exists, e) : e \in SplitEnvs}]

\* ---- one call of split_if_needed on its own
\* every variable of the batch at rest
BatchAtRest ==
    /\ svc = "nzbcloud"
    /\ urls = <<>>
    /\ file_names = <<>>
    /\ upload_enabled = TRUE
    /\ delete_after_upload = TRUE
    /\ pc = "idle"
    /\ idx = 1
    /\ failed_sources = <<>>
    /\ result = <<>>
    /\ status_message_id = FALSE
    /\ dl_status_msg = FALSE
    /\ since_edit = DL_THROTTLE
    /\ downloaded = 0
    /\ parts = NoParts
    /\ part_i = 0
    /\ all_ok = TRUE
    /\ file = FALSE
    /\ segs = {}
    /\ parts_dir = FALSE
    /\ fetchLog = <<>>
    /\ getLog = <<>>
    /\ done = {}
    /\ log = <<>>
    /\ sent = {}
    /\ upload_ok = <<>>
    /\ last = NoLast

batch == <<config, pc, idx, failed_sources, result, jobvars, disk, history>>

SplitInit ==
    /\ BatchAtRest
    /\ up = Idle
    /\ UnitsAtRest
    /\ \E exists \in BOOLEAN, e \in SplitEnvs :
         split_call = [pc |-> "call", exists |-> exists, env |-> e]

\* await split_if_needed(original_path, context, chat_id)
SplitCall ==
    /\ split_call.pc = "call"
    /\ split_call' =
          [pc |-> "returned", exists |-> split_call.exists,
           env |-> split_call.env,
           parts |-> split_if_needed(split_call.exists, split_call.env)]
    /\ UNCHANGED <<batch, up, units>>

SplitNext == SplitCall

SplitSpec == SplitInit /\ [][SplitNext]_vars

\* ------------------------------------------------------------ the uploader
\* what one call of upload_file_pyrogram meets: whether a send (primary or
\* fallback) delivered the file, the final status message, os.remove, and the
\* message reporting the deletion
UploadEnvs ==
    [send_ok : BOOLEAN, final_ok : BOOLEAN, rm_ok : BOOLEAN, report_ok : BOOLEAN]

UploadResult(ok, was_sent, removed) ==
    [ok |-> ok, sent |-> was_sent, removed |-> removed]

\* upload_file_pyrogram, seen from its caller: the boolean returned, whether
\* the file was delivered, whether the local file was removed
upload_file_pyrogram(enabled, delete_after, e) ==
    IF ~enabled THEN UploadResult(TRUE, FALSE, FALSE)
    ELSE IF ~e.send_ok THEN UploadResult(FALSE, FALSE, FALSE)
    ELSE IF ~e.final_ok THEN UploadResult(FALSE, TRUE, FALSE)
    ELSE IF ~delete_after THEN UploadResult(TRUE, TRUE, FALSE)
    ELSE UploadResult(e.report_ok, TRUE, e.rm_ok)

\* cleanup_split_parts: nothing for a list of one; otherwise the parts, the
\* directory, the original.  The result is (file, segs, parts_dir).
cleanup_split_parts(f, ss, dir, n) ==
    IF n <= 1 THEN <<f, ss, dir>> ELSE <<FALSE, {}, FALSE>>

\* mutant: the cleanup does not look at all_ok
RunsCleanupAlways(delete_after, ok) == delete_after

\* "if delete_after_upload and parts and all_ok: await cleanup_split_parts"
RunsCleanup(delete_after, ok) == delete_after /\ ok

\* mutant: the loop goes on after a failed upload
BreaksLoopNever(ok) == FALSE

\* "if not upload_ok: all_ok = False; break"
BreaksLoop(ok) == ~ok

\* mutant: every other part is passed over
NextPartSkips(i) == i + 2

\* enumerate(parts): the index that follows i
NextPart(i) == i + 1

\* the artifact uploaded at index i: 0 names the original file
Artifact(p, i) == IF p.ret = "orig" THEN 0 ELSE i

\* split_if_needed, and the branch on its result
SplitCheck ==
    /\ pc = "split"
    /\ log' = Append(log, Phase("split", 0))
    /\ \E r \in SplitOutcomes[file] :
         /\ parts' = [ret |-> r.ret, n |-> r.n]
         /\ segs' = r.segs
         /\ parts_dir' = r.dir
         /\ IF r.ret = "none"
            THEN /\ EndJob(FALSE, "split")
                 /\ part_i' = part_i
            ELSE /\ pc' = "upload"
                 /\ part_i' = 1
                 /\ UNCHANGED <<failed_sources, last, idx, done>>
    /\ all_ok' = TRUE
    /\ UNCHANGED <<calls, config, result, fetchvars, file, fetchLog, getLog,
                   sent, upload_ok>>

\* one turn of "for i, part_path in enumerate(parts)", and what follows the
\* loop when it breaks or ends
Upload ==
    /\ pc = "upload"
    /\ log' = Append(log, Phase("upload", part_i))
    /\ \E e \in UploadEnvs :
         LET r == upload_file_pyrogram(upload_enabled, delete_after_upload, e)
             a == Artifact(parts, part_i)
         IN  /\ sent' = IF r.sent THEN sent \cup {a} ELSE sent
             /\ file' = IF r.removed /\ a = 0 THEN FALSE ELSE file
             /\ segs' = IF r.removed THEN segs \ {a} ELSE segs
             /\ upload_ok' = Append(upload_ok, r.ok)
             /\ all_ok' = (all_ok /\ r.ok)
             /\ IF ~BreaksLoop(r.ok) /\ part_i < parts.n
                THEN /\ part_i' = NextPart(part_i)
                     /\ UNCHANGED <<pc, failed_sources, last, idx, done>>
                ELSE /\ part_i' = part_i
                     /\ IF RunsCleanup(delete_after_upload, all_ok')
                        THEN /\ pc' = "cleanup"
                             /\ UNCHANGED <<failed_sources, last, idx, done>>
                        ELSE EndJob(all_ok', IF all_ok' THEN "none" ELSE "upload")
    /\ UNCHANGED <<calls, config, result, fetchvars, parts, parts_dir, fetchLog,
                   getLog>>

\* cleanup_split_parts, then the end of the loop body
Cleanup ==
    /\ pc = "cleanup"
    /\ log' = Append(log, Phase("cleanup", 0))
    /\ LET d == cleanup_split_parts(file, segs, parts_dir, parts.n)
       IN  file' = d[1] /\ segs' = d[2] /\ parts_dir' = d[3]
    /\ EndJob(all_ok, IF all_ok THEN "none" ELSE "upload")
    /\ UNCHANGED <<calls, config, result, jobvars, fetchLog, getLog, sent,
                   upload_ok>>

Next ==
    \/ BatchCall
    \/ NextJob
    \/ Return
    \/ HttpGet
    \/ StreamChunk
    \/ StreamFail
    \/ StreamEnd
    \/ SplitCheck
    \/ Upload
    \/ Cleanup

Spec == Init /\ [][Next]_vars

\* every await of the batch function returns or raises in the end, so a step
\* that can be taken is taken
FairSpec == Spec /\ WF_vars(Next)

\* ------------------------------------- one call of upload_file_pyrogram
\* the classes of exception the except clauses of upload.py tell apart:
\* "format" is the tuple of the inner try (MediaCaptionTooLong, BadRequest,
\* BotMethodInvalid, TimeoutError, ValueError), "flood" is FloodWait,
\* "other" is any other Exception
ExcClasses == {"format", "flood", "other"}

\* a Pyrogram status edit or send: done, or an exception of some class
MsgOutcomes == {"ok"} \cup ExcClasses

\* a send_video / send_audio / send_document call
SendOutcomes == {"ok"} \cup ExcClasses

\* the progress callback during a send: not called, edit done, FloodWait,
\* message gone, any other error
ProgressOutcomes == {"none", "ok", "flood", "gone", "error"}

\* _download_thumb: file written, requests.get / raise_for_status raised,
\* content-type is no image, the write into the temporary file raised
ThumbOutcomes == {"ok", "request_error", "not_image", "write_error"}

\* _download_thumb: the path returned (TRUE for a path, FALSE for None) and
\* whether a temporary file is on disk afterwards.  NamedTemporaryFile is
\* opened with delete=False, and the except clauses only reset the path.
download_thumb(outcome) ==
    CASE outcome = "ok" -> [path |-> TRUE, on_disk |-> TRUE]
      [] outcome = "write_error" -> [path |-> FALSE, on_disk |-> TRUE]
      [] OTHER -> [path |-> FALSE, on_disk |-> FALSE]

\* mutant: the configuration switch is not looked at
SkipsUploadNever(enabled) == FALSE

\* "if not upload_enabled: return True"
SkipsUpload(enabled) == ~enabled

\* "except (MediaCaptionTooLong, BadRequest, BotMethodInvalid, TimeoutError,
\* ValueError)" of the inner try
InnerCatches(exc) == exc = "format"

\* mutant: only the FloodWait clause closes the outer try
OuterCatchesFloodOnly(exc) == exc = "flood"

\* the outer try: "except FloodWait" and "except Exception"
OuterCatches(exc) == exc \in ExcClasses

\* the mode of the first send: Video, Audio, and Document for anything else
AttemptedMode(upload_mode) ==
    IF upload_mode \in {"Video", "Audio"} THEN upload_mode ELSE "Document"

\* "if status_message_id: try: edit ... except Exception: send ...
\*  elif original_chat_id: send ...": the send is not guarded
StatusReportRaises(has_id, edit_ok, send_ok) ==
    IF has_id THEN ~edit_ok /\ ~send_ok ELSE ~send_ok

UploadConfigs ==
    [upload_enabled : BOOLEAN, upload_mode : UploadModes,
     delete_after_upload : BOOLEAN, thumbnail_url : BOOLEAN]

UpInit ==
    /\ BatchAtRest
    /\ split_call = Idle
    /\ UnitsAtRest
    /\ \E c \in UploadConfigs :
         up = [pc |-> "call",
               upload_enabled |-> c.upload_enabled,
               upload_mode |-> c.upload_mode,
               delete_after_upload |-> c.delete_after_upload,
               thumbnail_url |-> c.thumbnail_url,
               status_message_id |-> FALSE,
               temp_thumb_path |-> FALSE,
               sent_message |-> FALSE,
               file |-> TRUE,
               thumb_file |-> FALSE,
               ret |-> FALSE,
               sends |-> <<>>,
               slept |-> 0,
               messaged |-> FALSE,
               thumb_fetched |-> FALSE,
               rm |-> "none",
               caught |-> "none"]

\* mutant: every return reports success
FinishTrue(u, ret) ==
    up' = [u EXCEPT !.pc = "returned", !.ret = TRUE,
                    !.thumb_file = IF u.temp_thumb_path THEN FALSE
                                   ELSE u.thumb_file]

\* every "return": the temporary thumbnail is removed when its path is known
Finish(u, ret) ==
    up' = [u EXCEPT !.pc = "returned", !.ret = ret,
                    !.thumb_file = IF u.temp_thumb_path THEN FALSE
                                   ELSE u.thumb_file]

\* an exception reaches the outer try: both clauses return False
Outer(u, exc) ==
    IF OuterCatches(exc)
    THEN Finish([u EXCEPT !.caught = exc], FALSE)
    ELSE up' = [u EXCEPT !.pc = "raised", !.caught = exc]

\* the progress callback swallows every error: a FloodWait of n seconds is
\* slept out (n + 1), a vanished message stops the edits
AfterProgress(u, prog, n) ==
    IF ~u.status_message_id THEN u
    ELSE CASE prog = "flood" -> [u EXCEPT !.slept = @ + n + 1]
           [] prog = "gone" -> [u EXCEPT !.status_message_id = FALSE]
           [] OTHER -> u

\* one send attempt as the log of the call keeps it
Attempt(mode, out, n) ==
    [mode |-> mode, outcome |-> out, wait |-> IF out = "flood" THEN n ELSE 0]

\* reading the configuration, the switch
UpCall ==
    /\ up.pc = "call"
    /\ IF SkipsUpload(up.upload_enabled)
       THEN Finish(up, TRUE)
       ELSE up' = [up EXCEPT !.pc = "thumb"]
    /\ UNCHANGED <<batch, split_call, units>>

\* the thumbnail download, before the outer try
UpThumb ==
    /\ up.pc = "thumb"
    /\ IF up.thumbnail_url
       THEN \E o \in ThumbOutcomes :
              LET t == download_thumb(o)
              IN  up' = [up EXCEPT !.pc = "status", !.thumb_fetched = TRUE,
                                   !.temp_thumb_path = t.path,
                                   !.thumb_file = t.on_disk]
       ELSE up' = [up EXCEPT !.pc = "status"]
    /\ UNCHANGED <<batch, split_call, units>>

\* the initial status message (guarded)
UpStatus ==
    /\ up.pc = "status"
    /\ \E ok \in BOOLEAN :
         up' = [up EXCEPT !.pc = "send", !.messaged = TRUE,
                          !.status_message_id = ok]
    /\ UNCHANGED <<batch, split_call, units>>

\* where an exception of the inner try goes: the fallback for a caught class
\* when the first mode was not Document, the not-sent branch when it was,
\* the outer try otherwise
InnerRaise(u, exc) ==
    IF InnerCatches(exc)
    THEN IF AttemptedMode(u.upload_mode) # "Document"
         THEN up' = [u EXCEPT !.pc = "fallback"]
         ELSE up' = [u EXCEPT !.pc = "final"]
    ELSE Outer(u, exc)

\* the inner try: the status edit, then the send in the configured mode
UpSend ==
    /\ up.pc = "send"
    /\ \E edit \in (IF up.status_message_id THEN MsgOutcomes ELSE {"ok"}) :
         IF edit # "ok"
         THEN InnerRaise(up, edit)
         ELSE \E prog \in ProgressOutcomes, out \in SendOutcomes,
                 n \in 1..MaxWait :
                LET u1 == AfterProgress(up, prog, n)
                    u2 == [u1 EXCEPT !.sends = Append(@,
                              Attempt(AttemptedMode(up.upload_mode), out, n))]
                IN  IF out = "ok"
                    THEN up' = [u2 EXCEPT !.pc = "final",
                                          !.sent_message = TRUE]
                    ELSE InnerRaise(u2, out)
    /\ UNCHANGED <<batch, split_call, units>>

\* the fallback: the status edit and send_document in one try whose
\* "except Exception" sets sent_message to None
UpFallback ==
    /\ up.pc = "fallback"
    /\ \E edit \in (IF up.status_message_id THEN MsgOutcomes ELSE {"ok"}) :
         IF edit # "ok"
         THEN up' = [up EXCEPT !.pc = "final"]
         ELSE \E prog \in ProgressOutcomes, out \in SendOutcomes,
                 n \in 1..MaxWait :
                LET u1 == AfterProgress(up, prog, n)
                IN  up' = [u1 EXCEPT !.pc = "final",
                                     !.sends = Append(@,
                                         Attempt("Document", out, n)),
                                     !.sent_message = (out = "ok")]
    /\ UNCHANGED <<batch, split_call, units>>

\* "if not sent_message: ... return False", else the final success message
UpFinal ==
    /\ up.pc = "final"
    /\ \E edit_ok \in BOOLEAN, send_ok \in BOOLEAN, exc \in ExcClasses :
         LET raises ==
               StatusReportRaises(up.status_message_id, edit_ok, send_ok)
         IN  IF ~up.sent_message
             THEN IF raises THEN Outer(up, exc) ELSE Finish(up, FALSE)
             ELSE IF raises THEN Outer(up, exc)
             ELSE IF up.delete_after_upload
                  THEN up' = [up EXCEPT !.pc = "delete"]
                  ELSE Finish(up, TRUE)
    /\ UNCHANGED <<batch, split_call, units>>

\* os.remove(file_path) and the notice of its outcome; the notice is sent
\* with the bot API and is not guarded
UpDelete ==
    /\ up.pc = "delete"
    /\ \E rm_ok \in BOOLEAN, notice_ok \in BOOLEAN :
         LET u1 == [up EXCEPT !.rm = IF rm_ok THEN "ok" ELSE "failed",
                              !.file = ~rm_ok]
         IN  IF notice_ok THEN Finish(u1, TRUE) ELSE Outer(u1, "other")
    /\ UNCHANGED <<batch, split_call, units>>

UpNext ==
    \/ UpCall
    \/ UpThumb
    \/ UpStatus
    \/ UpSend
    \/ UpFallback
    \/ UpFinal
    \/ UpDelete

UploadSpec == UpInit /\ [][UpNext]_vars

\* ------------------------------------- the progress callbacks of a transfer
\* One transfer: the chunk loop of a fetch, which calls
\* _edit_download_progress while the status message is live, or one send of
\* upload_file_pyrogram, which pyrogram reports to progress(current, total).
TransferKinds == {"download", "upload"}
Throttle(kind) == IF kind = "download" THEN DL_THROTTLE ELSE UP_THROTTLE

\* seconds that pass between two callbacks
Gaps == {0, 1, DL_THROTTLE, UP_THROTTLE}

\* what pyrogram's edit_message_text does inside progress()
UpEditOutcomes == {"ok", "flood", "modified", "gone", "bad_request", "error"}

\* progress(current, total) of upload_file_pyrogram, since being
\* now - last_update_time: nothing without a status message or inside the
\* throttle interval; last_update_time is set after a successful edit, and
\* after a FloodWait of n seconds to n seconds after the end of the sleep
progress(has_id, since, outcome, n) ==
    IF ~has_id \/ since < UP_THROTTLE
    THEN [since |-> since, has_id |-> has_id, edited |-> FALSE, slept |-> 0]
    ELSE CASE outcome = "ok" ->
                [since |-> 0, has_id |-> TRUE, edited |-> TRUE, slept |-> 0]
           [] outcome = "flood" ->
                [since |-> 0 - n, has_id |-> TRUE, edited |-> TRUE,
                 slept |-> n + 1]
           [] outcome = "gone" ->
                [since |-> since, has_id |-> FALSE, edited |-> TRUE,
                 slept |-> 0]
           [] OTHER ->
                [since |-> since, has_id |-> TRUE, edited |-> TRUE,
                 slept |-> 0]

\* live: the status message can still be edited; since_edit: time since
\* last_download_edit_time / last_update_time, which start at 0 (long ago);
\* since_req: time since the last edit request; gap: the time between the last
\* two edit requests; all three are kept up to the throttle interval
ProgInit ==
    /\ BatchAtRest
    /\ split_call = Idle
    /\ up = Idle
    /\ conv = Idle /\ report = Idle /\ fname = Idle /\ cleanup = Idle
    /\ remux = Idle
    /\ \E kind \in TransferKinds, live \in BOOLEAN :
         transfer = [pc |-> "transfer", kind |-> kind, had_status |-> live,
                     live |-> live,
                     since_edit |-> Throttle(kind),
                     since_req |-> Throttle(kind),
                     gap |-> Throttle(kind),
                     callbacks |-> 0, requests |-> 0,
                     first_reported |-> FALSE]

\* the bookkeeping of one callback: edited tells whether an edit was requested
Called(t, since_req, edited, slept) ==
    [t EXCEPT !.callbacks = @ + 1,
              !.requests = IF edited THEN @ + 1 ELSE @,
              !.gap = IF edited THEN since_req ELSE @,
              !.since_req = IF edited THEN Min(Throttle(t.kind), slept)
                            ELSE since_req,
              !.first_reported = IF t.callbacks = 0 THEN edited ELSE @]

\* a chunk was written: "if status_message_id and context.chat_data.get(...)"
\* guards the call of the helper
DownloadCallback ==
    /\ transfer.pc = "transfer"
    /\ transfer.kind = "download"
    /\ transfer.callbacks < MaxCallbacks
    /\ \E dt \in Gaps :
         LET since == Min(DL_THROTTLE, transfer.since_edit + dt)
             since_req == Min(DL_THROTTLE, transfer.since_req + dt)
         IN  IF transfer.live
             THEN \E outcome \in EditOutcomes :
                    LET r == edit_download_progress(since, outcome)
                        t == Called(transfer, since_req, r.edited, 0)
                    IN  transfer' =
                          [t EXCEPT !.since_edit = r.since,
                                    !.live = r.marker,
                                    !.pc = IF r.raises THEN "raised" ELSE @]
             ELSE transfer' =
                    [Called(transfer, since_req, FALSE, 0)
                        EXCEPT !.since_edit = since]
    /\ UNCHANGED <<batch, split_call, up, conv, report, fname, cleanup,
                   remux>>

\* pyrogram calls progress(current, total)
UploadCallback ==
    /\ transfer.pc = "transfer"
    /\ transfer.kind = "upload"
    /\ transfer.callbacks < MaxCallbacks
    /\ \E dt \in Gaps, outcome \in UpEditOutcomes, n \in 1..MaxWait :
         LET since == Min(UP_THROTTLE, transfer.since_edit + dt)
             since_req == Min(UP_THROTTLE, transfer.since_req + dt)
             r == progress(transfer.live, since, outcome, n)
             t == Called(transfer, since_req, r.edited, r.slept)
         IN  transfer' = [t EXCEPT !.since_edit = r.since,
                                   !.live = r.has_id]
    /\ UNCHANGED <<batch, split_call, up, conv, report, fname, cleanup,
                   remux>>

\* the stream is exhausted / the send returned
TransferEnd ==
    /\ transfer.pc = "transfer"
    /\ transfer' = [transfer EXCEPT !.pc = "end"]
    /\ UNCHANGED <<batch, split_call, up, conv, report, fname, cleanup,
                   remux>>

ProgNext ==
    \/ DownloadCallback
    \/ UploadCallback
    \/ TransferEnd

ProgressSpec == ProgInit /\ [][ProgNext]_vars

\* ----------------------------------------------------------- clean_filename
\* all sequences over S of length at most n
Seqs(S, n) == UNION {[1..k -> S] : k \in 0..n}

\* the characters file names are written with here
NameChars == {"x", ".", "_", " ", "/", "%", "2", "5", "0"}
HexDigits == {"0", "2", "5"}

\* chr(int(pair, 16)) for the pairs of HexDigits (all below 0x80, so the
\* UTF-8 decoding of unquote returns the same character)
Chr(hi, lo) ==
    CASE hi = "0" /\ lo = "0" -> "NUL"
      [] hi = "0" /\ lo = "2" -> "STX"
      [] hi = "0" /\ lo = "5" -> "ENQ"
      [] hi = "2" /\ lo = "0" -> " "
      [] hi = "2" /\ lo = "2" -> "\""
      [] hi = "2" /\ lo = "5" -> "%"
      [] hi = "5" /\ lo = "0" -> "P"
      [] hi = "5" /\ lo = "2" -> "R"
      [] hi = "5" /\ lo = "5" -> "U"

\* the positions of s, in order
Positions(s) == [i \in 1..Len(s) |-> i]

\* urllib.parse.unquote: the string is split at every "%"; a piece that
\* starts with two hex digits has them replaced by the character they
\* encode, any other piece keeps its "%".  One pass: what an escape decodes
\* to is not decoded again.
Unquote(s) ==
    LET escape(i) == /\ s[i] = "%" /\ i + 2 <= Len(s)
                     /\ s[i + 1] \in HexDigits /\ s[i + 2] \in HexDigits
        digit(i) == \/ i > 1 /\ escape(i - 1)
                    \/ i > 2 /\ escape(i - 2)
        kept == SelectSeq(Positions(s), LAMBDA i : ~digit(i))
    IN  [k \in 1..Len(kept) |->
            IF escape(kept[k]) THEN Chr(s[kept[k] + 1], s[kept[k] + 2])
            ELSE s[kept[k]]]

\* filename.replace('%20', ' ')
ReplaceEscapedSpace(s) ==
    LET found(i) == i + 2 <= Len(s) /\ SubSeq(s, i, i + 2) = <<"%", "2", "0">>
        rest(i) == \/ i > 1 /\ found(i - 1)
                   \/ i > 2 /\ found(i - 2)
        kept == SelectSeq(Positions(s), LAMBDA i : ~rest(i))
    IN  [k \in 1..Len(kept) |-> IF found(kept[k]) THEN " " ELSE s[kept[k]]]

\* the character class [\\/:*?"<>|]
Forbidden == {"\\", "/", ":", "*", "?", "\"", "<", ">", "|"}

\* mutant: the characters are left as they are
ReplaceForbiddenKeeps(s) == s

\* re.sub(r'[\\/:*?"<>|]', '_', filename)
ReplaceForbidden(s) ==
    [i \in 1..Len(s) |-> IF s[i] \in Forbidden THEN "_" ELSE s[i]]

\* re.sub(r'_+', '_', cleaned_filename)
CollapseUnderscores(s) ==
    LET kept == SelectSeq(Positions(s),
                          LAMBDA i : ~(s[i] = "_" /\ i > 1 /\ s[i - 1] = "_"))
    IN  [k \in 1..Len(kept) |-> s[kept[k]]]

\* cleaned_filename.strip('._ ')
StripChars == {".", "_", " "}
StripName(s) ==
    LET keep == {i \in 1..Len(s) : s[i] \notin StripChars}
    IN  IF keep = {} THEN <<>>
        ELSE SubSeq(s, CHOOSE i \in keep : \A j \in keep : i <= j,
                       CHOOSE i \in keep : \A j \in keep : i >= j)

\* "downloaded_file"
DOWNLOADED_FILE ==
    <<"d", "o", "w", "n", "l", "o", "a", "d", "e", "d", "_", "f", "i", "l",
      "e">>

\* clean_filename(filename)
clean_filename(filename) ==
    LET unquoted == ReplaceEscapedSpace(Unquote(filename))
        stripped == StripName(CollapseUnderscores(ReplaceForbidden(unquoted)))
        cleaned_filename == SubSeq(stripped, 1, Min(NAME_LIMIT, Len(stripped)))
    IN  IF cleaned_filename # <<>> THEN cleaned_filename ELSE DOWNLOADED_FILE

\* ---- calls of clean_filename on their own
\* n times "x"
Pad(n) == [i \in 1..n |-> "x"]

\* names around the length limit, and names whose escapes decode to escapes
LongNames ==
    {Pad(n) \o tail : n \in (NAME_LIMIT - 2)..NAME_LIMIT,
                      tail \in Seqs({"x", ".", "_", "/"}, MaxTail)}
NestedEscapes ==
    {<<"%", "2", "5">> \o rest \o tail :
        rest \in [1..2 -> HexDigits], tail \in Seqs({"x", "."}, MaxTail)}
FileNames == Seqs(NameChars, MaxName) \cup LongNames \cup NestedEscapes

NameInit ==
    /\ BatchAtRest
    /\ split_call = Idle
    /\ up = Idle
    /\ transfer = Idle /\ conv = Idle /\ report = Idle /\ cleanup = Idle
    /\ remux = Idle
    /\ \E x \in FileNames : fname = [pc |-> "call", input |-> x]

\* clean_filename(x)
CleanCall ==
    /\ fname.pc = "call"
    /\ fname' = [pc |-> "once", input |-> fname.input,
                 once |-> clean_filename(fname.input)]
    /\ UNCHANGED <<batch, split_call, up, transfer, conv, report, cleanup,
                   remux>>

\* clean_filename(clean_filename(x))
CleanAgain ==
    /\ fname.pc = "once"
    /\ fname' = [pc |-> "twice", input |-> fname.input, once |-> fname.once,
                 twice |-> clean_filename(fname.once)]
    /\ UNCHANGED <<batch, split_call, up, transfer, conv, report, cleanup,
                   remux>>

NameNext ==
    \/ CleanCall
    \/ CleanAgain

NameSpec == NameInit /\ [][NameNext]_vars

\* ------------------------------------- one call of cleanup_split_parts
\* n: the number of paths in parts, numbered 1..n; present, dir, orig: the
\* parts, the parts directory and the original file that exist at the call;
\* left: what exists now; attempts: the deletions attempted, in order
CleanupInit ==
    /\ BatchAtRest
    /\ split_call = Idle
    /\ up = Idle
    /\ transfer = Idle /\ conv = Idle /\ report = Idle /\ fname = Idle
    /\ remux = Idle
    /\ \E n \in 0..(MaxSegs + 1), dir \in BOOLEAN, orig \in BOOLEAN :
         \E present \in SUBSET (1..n) :
            cleanup = [pc |-> "call", n |-> n, present |-> present,
                       dir |-> dir, orig |-> orig, i |-> 1,
                       left |-> [present |-> present, dir |-> dir,
                                 orig |-> orig],
                       attempts |-> <<>>, deleted_parts_count |-> 0]

\* "if not parts or len(parts) <= 1: ...; return"
CleanupCall ==
    /\ cleanup.pc = "call"
    /\ cleanup' = [cleanup EXCEPT
                      !.pc = IF cleanup.n <= 1 THEN "returned" ELSE "parts"]
    /\ UNCHANGED <<batch, split_call, up, transfer, conv, report, fname,
                   remux>>

\* mutant: os.remove(part_path) is not guarded, its exception is handled by
\* the except clause that ends the function
AfterPartUnguarded(c, attempted, ok) ==
    IF attempted /\ ~ok
    THEN [c EXCEPT !.pc = "returned",
                   !.attempts = Append(@, <<"part", c.i>>)]
    ELSE [c EXCEPT !.i = @ + 1,
                   !.attempts = IF attempted THEN Append(@, <<"part", c.i>>)
                                ELSE @,
                   !.left.present = IF attempted THEN @ \ {c.i} ELSE @,
                   !.deleted_parts_count = IF attempted THEN @ + 1 ELSE @]

\* one turn of "for part_path in parts": os.remove inside its own try, whose
\* except clause logs the failure
AfterPart(c, attempted, ok) ==
    [c EXCEPT !.i = @ + 1,
              !.attempts = IF attempted THEN Append(@, <<"part", c.i>>) ELSE @,
              !.left.present = IF attempted /\ ok THEN @ \ {c.i} ELSE @,
              !.deleted_parts_count = IF attempted /\ ok THEN @ + 1 ELSE @]

\* "if os.path.exists(part_path): try: os.remove(part_path) ..."
RemovePart ==
    /\ cleanup.pc = "parts"
    /\ cleanup.i <= cleanup.n
    /\ \E ok \in BOOLEAN :
         cleanup' = AfterPart(cleanup, cleanup.i \in cleanup.left.present, ok)
    /\ UNCHANGED <<batch, split_call, up, transfer, conv, report, fname,
                   remux>>

\* "if os.path.isdir(parts_dir): try: os.rmdir(parts_dir) except OSError";
\* rmdir fails on a directory that is not empty
RemoveDir ==
    /\ cleanup.pc = "parts"
    /\ cleanup.i > cleanup.n
    /\ IF cleanup.left.dir
       THEN \E ok \in BOOLEAN :
              cleanup' = [cleanup EXCEPT
                            !.pc = "original",
                            !.attempts = Append(@, <<"dir", 0>>),
                            !.left.dir = ~(ok /\ cleanup.left.present = {})]
       ELSE cleanup' = [cleanup EXCEPT !.pc = "original"]
    /\ UNCHANGED <<batch, split_call, up, transfer, conv, report, fname,
                   remux>>

\* "if os.path.exists(original_path) and len(parts) > 1: try: os.remove(...)"
RemoveOriginal ==
    /\ cleanup.pc = "original"
    /\ IF cleanup.left.orig /\ cleanup.n > 1
       THEN \E ok \in BOOLEAN :
              cleanup' = [cleanup EXCEPT
                            !.pc = "returned",
                            !.attempts = Append(@, <<"original", 0>>),
                            !.left.orig = ~ok]
       ELSE cleanup' = [cleanup EXCEPT !.pc = "returned"]
    /\ UNCHANGED <<batch, split_call, up, transfer, conv, report, fname,
                   remux>>

CleanupNext ==
    \/ CleanupCall
    \/ RemovePart
    \/ RemoveDir
    \/ RemoveOriginal

CleanupSpec == CleanupInit /\ [][CleanupNext]_vars

\* ----------------------------------- run_and_report_process, call by call
\* what a batch function hands back: sources that failed, in list order
FailedSources == {<<"u", "1">>, <<"u", "2">>}
FailedLists == Seqs(FailedSources, MaxFailed)

\* os.path.join(download_directory, f"failed_downloads_{downloader_name}.txt")
FailedFilePath(downloader_name) ==
    <<"failed_downloads_", downloader_name, ".txt">>

\* a file of the download directory: its lines, each without its "\n"
NoFile == [exists |-> FALSE, lines |-> <<>>]
TextFile(lines) == [exists |-> TRUE, lines |-> lines]

\* f"# Failed URLs for {downloader_name}\n", then f"{item}\n" for each item
FailedFileLines(failed_items, downloader_name) ==
    << <<"# Failed URLs for ", downloader_name>> >> \o failed_items

\* mutant: the file is opened for appending
OpenForAppending(old) == old.lines

\* open(file_path, "w"): the file is created or emptied
OpenForWriting(old) == <<>>

\* makedirs failed, open failed, a write failed after k lines, or all went well
WriteOutcomes == {"ok", "no_dir", "no_open", "io_error"}

\* write_failed_downloads_to_file(failed_items, downloader_name,
\* download_directory) on the file old: the file afterwards and the path
\* returned (ret: FALSE for None)
write_failed_downloads_to_file(old, failed_items, downloader_name, outcome, k) ==
    LET lines == FailedFileLines(failed_items, downloader_name)
    IN  IF failed_items = <<>> THEN [file |-> old, ret |-> FALSE, opened |-> FALSE]
        ELSE CASE outcome \in {"no_dir", "no_open"} ->
                    [file |-> old, ret |-> FALSE, opened |-> FALSE]
               [] outcome = "io_error" ->
                    [file |-> TextFile(OpenForWriting(old)
                                       \o SubSeq(lines, 1, Min(k, Len(lines) - 1))),
                     ret |-> FALSE, opened |-> TRUE]
               [] OTHER ->
                    [file |-> TextFile(OpenForWriting(old) \o lines),
                     ret |-> TRUE, opened |-> TRUE]

\* mutant: the summary leaves the failures out
FinalMsgAllOk(service_name, failed_list, saved) ==
    [kind |-> "finished", service |-> service_name, all_ok |-> TRUE,
     failed |-> 0, saved |-> FALSE]

\* final_msg: "process finished", then either the number of failed items and,
\* when the list was saved, its path, or "All items OK!"
FinalMsg(service_name, failed_list, saved) ==
    [kind |-> "finished", service |-> service_name,
     all_ok |-> failed_list = <<>>,
     failed |-> Len(failed_list),
     saved |-> saved]

\* the call: its argument, what the awaited task gave, whether it called
\* write_failed_downloads_to_file and the path that returned, the messages
\* sent; dir: the files of the download directory; writes: the calls of
\* write_failed_downloads_to_file of all reports so far
NewReport(service_name, run, dir, writes) ==
    [pc |-> "await", service_name |-> service_name, run |-> run,
     raised |-> FALSE, failed_sources |-> <<>>, wrote |-> FALSE,
     saved |-> FALSE, msgs |-> <<>>, dir |-> dir, writes |-> writes]

ReportInit ==
    /\ BatchAtRest
    /\ split_call = Idle
    /\ up = Idle
    /\ transfer = Idle /\ conv = Idle /\ fname = Idle /\ cleanup = Idle
    /\ remux = Idle
    /\ \E s \in Services :
         report = NewReport(s, 1, [p \in {FailedFilePath(x) : x \in Services}
                                     |-> NoFile], <<>>)

\* "failed_sources = await download_upload_task": the batch function returns
\* its list, or an exception comes out of it
ReportAwait ==
    /\ report.pc = "await"
    /\ \/ \E l \in FailedLists :
            report' = [report EXCEPT
                          !.failed_sources = l,
                          !.pc = IF l # <<>> THEN "write" ELSE "send"]
       \/ report' = [report EXCEPT !.raised = TRUE, !.pc = "error"]
    /\ UNCHANGED <<batch, split_call, up, transfer, conv, fname, cleanup,
                   remux>>

\* "failed_file_path = write_failed_downloads_to_file(failed_sources,
\* service_name, download_dir)"
ReportWrite ==
    /\ report.pc = "write"
    /\ \E outcome \in WriteOutcomes, k \in 0..MaxFailed :
         LET path == FailedFilePath(report.service_name)
             r == write_failed_downloads_to_file(
                     report.dir[path], report.failed_sources,
                     report.service_name, outcome, k)
         IN  report' = [report EXCEPT
                          !.dir[path] = r.file,
                          !.wrote = TRUE,
                          !.saved = r.ret,
                          !.writes = Append(@,
                              [items |-> report.failed_sources,
                               name |-> report.service_name,
                               ret |-> r.ret, file |-> r.file]),
                          !.pc = "send"]
    /\ UNCHANGED <<batch, split_call, up, transfer, conv, fname, cleanup,
                   remux>>

\* "await context.bot.send_message(chat_id, final_msg, ...)"
ReportSend ==
    /\ report.pc = "send"
    /\ \E ok \in BOOLEAN :
         report' =
           IF ok
           THEN [report EXCEPT
                   !.msgs = Append(@, FinalMsg(report.service_name,
                                               report.failed_sources,
                                               report.saved)),
                   !.pc = "done"]
           ELSE [report EXCEPT !.pc = "error"]
    /\ UNCHANGED <<batch, split_call, up, transfer, conv, fname, cleanup,
                   remux>>

\* "except Exception as e": the error message, whose own failure is logged
ReportError ==
    /\ report.pc = "error"
    /\ \E ok \in BOOLEAN :
         report' = [report EXCEPT
                      !.msgs = IF ok
                               THEN Append(@, [kind |-> "error",
                                               service |-> report.service_name])
                               ELSE @,
                      !.pc = "done"]
    /\ UNCHANGED <<batch, split_call, up, transfer, conv, fname, cleanup,
                   remux>>

\* the next batch of the bot ends and is reported, the download directory
\* being the same
ReportAgain ==
    /\ report.pc = "done"
    /\ report.run < MaxReports
    /\ \E s \in Services :
         report' = NewReport(s, report.run + 1, report.dir, report.writes)
    /\ UNCHANGED <<batch, split_call, up, transfer, conv, fname, cleanup,
                   remux>>

ReportNext ==
    \/ ReportAwait
    \/ ReportWrite
    \/ ReportSend
    \/ ReportError
    \/ ReportAgain

ReportSpec == ReportInit /\ [][ReportNext]_vars

\* ------------------------------------------------------ the conversation
\* The ConversationHandler of one user in one chat, and the tasks its
\* handlers start with asyncio.create_task.  The scheme of a URL is one token.
UrlLines ==
    { <<"http://", "h", "/", "a">>,
      <<" ", "https://", "h", "/", "b">>,
      <<"HTTP://", "h">>,
      <<"ftp://", "h", "/", "d">> }
NameLines == {<<" ">>, <<"n">>}

\* update.message.text.splitlines()
UrlMessages == Seqs(UrlLines, MaxLines)
NameMessages == Seqs(NameLines, MaxLines)

\* str.lower()
Lower(s) ==
    [i \in 1..Len(s) |->
        CASE s[i] = "HTTP://" -> "http://"
          [] s[i] = "HTTPS://" -> "https://"
          [] OTHER -> s[i]]

\* s.startswith(('http://', 'https://'))
StartsWithHttp(s) == s # <<>> /\ s[1] \in {"http://", "https://"}

\* "[url for url in ....splitlines()
\*   if url.strip().lower().startswith(('http://', 'https://'))]"
HttpLines(lines) ==
    SelectSeq(lines, LAMBDA url : StartsWithHttp(Lower(Strip(url))))

\* "[fn.strip() for fn in update.message.text.splitlines() if fn.strip()]"
NonBlank(lines) ==
    LET stripped == [i \in 1..Len(lines) |-> Strip(lines[i])]
    IN  SelectSeq(stripped, LAMBDA fn : fn # <<>>)

\* s.strip(chars)
StripOf(s, chars) ==
    LET keep == {i \in 1..Len(s) : s[i] \notin chars}
    IN  IF keep = {} THEN <<>>
        ELSE SubSeq(s, CHOOSE i \in keep : \A j \in keep : i <= j,
                       CHOOSE i \in keep : \A j \in keep : i >= j)

\* what follows the last "/" of s (all of s when it has none)
AfterLastSlash(s) ==
    LET slashes == {i \in 1..Len(s) : s[i] = "/"}
    IN  IF slashes = {} THEN s
        ELSE SubSeq(s, (CHOOSE i \in slashes : \A j \in slashes : i >= j) + 1,
                    Len(s))

\* extract_filename_from_url(url): None (ok false) unless the lower-cased URL
\* starts with a scheme; else the cleaned last segment of the path, or a name
\* made from the host
NoName == [ok |-> FALSE, name |-> <<>>]
extract_filename_from_url(url) ==
    IF ~StartsWithHttp(Lower(url)) THEN NoName
    ELSE LET rest == Tail(url)
             slashes == {i \in 1..Len(rest) : rest[i] = "/"}
             first == IF slashes = {} THEN Len(rest) + 1
                      ELSE CHOOSE i \in slashes : \A j \in slashes : i <= j
             netloc == SubSeq(rest, 1, first - 1)
             path == SubSeq(rest, first, Len(rest))
             basename == IF path = <<>> THEN <<>> ELSE AfterLastSlash(path)
             segment == IF basename = <<>> /\ path # <<"/">>
                        THEN AfterLastSlash(StripOf(path, {"/"}))
                        ELSE basename
             filename_raw ==
                IF segment # <<>> THEN segment
                ELSE [i \in 1..Len(netloc) |->
                         IF netloc[i] = "." THEN "_" ELSE netloc[i]]
                     \o <<"_", "f", "i", "l", "e">>
         IN  [ok |-> TRUE, name |-> clean_filename(Unquote(filename_raw))]

\* context.user_data after clear()
NoUserData == [downloader |-> "none", urls |-> <<>>]

\* the last handler that ran: the state it ran in, the URL list stored then,
\* the lines it was given, and the arguments of the batch function if it
\* started one
NoStep == [handler |-> "none", from |-> "END", stored |-> <<>>,
           input |-> <<>>, launched |-> FALSE, urls |-> <<>>, names |-> <<>>]
Step(c, handler, input) ==
    [handler |-> handler, from |-> c.state, stored |-> c.user_data.urls,
     input |-> input, launched |-> FALSE, urls |-> <<>>, names |-> <<>>]

ConvInit ==
    /\ BatchAtRest
    /\ split_call = Idle
    /\ up = Idle
    /\ transfer = Idle /\ report = Idle /\ fname = Idle /\ cleanup = Idle
    /\ remux = Idle
    /\ \E client \in {"absent", "none", "set"} :
         conv = [pc |-> "run", state |-> "END", user_data |-> NoUserData,
                 pyrogram_client |-> client, tasks |-> <<>>,
                 launched |-> 0, step |-> NoStep,
                 dir |-> [p \in {FailedFilePath(x) : x \in Services}
                            |-> NoFile]]

\* a batch function wrapped in run_and_report_process, as a task: the service,
\* the number of jobs of zip(urls, filenames), the job it is at and what it is
\* doing (created, fetch, upload, between two jobs, done); failed_sources:
\* the list of the batch function (see Source);
\* saved: write_failed_downloads_to_file returned a path; during: the tasks
\* that had not ended when this one was created
NewTask(service, us, names) ==
    [service |-> service, jobs |-> Min(Len(us), Len(names)), job |-> 1,
     phase |-> "created", failed_sources |-> <<>>, saved |-> FALSE,
     during |-> {}]

\* the URL of job j of task t; the URLs of different batches differ
Source(t, j) == <<"u", ToString(t), ToString(j)>>

\* the tasks of c that have not ended
Running(c) == {t \in 1..Len(c.tasks) : c.tasks[t].phase # "done"}

\* the end of the handlers that have both lists: "if not pyro_client: ...
\* else: asyncio.create_task(run_and_report_process(...))", then
\* "context.user_data.clear(); return ConversationHandler.END"
Launch(c, handler, input, service, us, names) ==
    LET starts == c.pyrogram_client = "set"
    IN  [c EXCEPT
           !.tasks = IF starts
                     THEN Append(@, [NewTask(service, us, names)
                                       EXCEPT !.during = Running(c)])
                     ELSE @,
           !.launched = IF starts THEN @ + 1 ELSE @,
           !.user_data = NoUserData,
           !.state = "END",
           !.step = [Step(c, handler, input) EXCEPT
                        !.launched = starts, !.urls = us, !.names = names]]

\* cancel: "context.user_data.clear(); return ConversationHandler.END"
Cancelled(c) ==
    [c EXCEPT !.user_data = NoUserData, !.state = "END",
              !.step = Step(c, "cancel", <<>>)]

\* /download outside a conversation: start_download_conv
StartDownloadConv ==
    /\ conv.pc = "run"
    /\ conv.state = "END"
    /\ Len(conv.tasks) < MaxTasks
    /\ conv' = [conv EXCEPT
                  !.state = IF conv.pyrogram_client = "absent" THEN "END"
                            ELSE "CHOOSE_DOWNLOADER",
                  !.launched = 0,
                  !.step = Step(conv, "start_download_conv", <<>>)]
    /\ UNCHANGED <<batch, split_call, up, transfer, report, fname, cleanup,
                   remux>>

\* a button of the service keyboard: choose_downloader
ChooseDownloader ==
    /\ conv.pc = "run"
    /\ conv.state = "CHOOSE_DOWNLOADER"
    /\ \E downloader \in Services \cup {"cancel"} :
         conv' =
           IF downloader = "cancel"
           THEN Cancelled([conv EXCEPT !.user_data.downloader = downloader])
           ELSE [conv EXCEPT
                   !.user_data.downloader = downloader,
                   !.state = IF downloader = "bitso" THEN "GET_URLS_BITSO"
                             ELSE "GET_URLS",
                   !.step = Step(conv, "choose_downloader", <<>>)]
    /\ UNCHANGED <<batch, split_call, up, transfer, report, fname, cleanup,
                   remux>>

\* the state to ask for the URLs again
UrlState(c) ==
    IF c.user_data.downloader = "bitso" THEN "GET_URLS_BITSO" ELSE "GET_URLS"

\* _process_urls_and_proceed(urls, update, context)
process_urls_and_proceed(c, handler, input, us) ==
    IF us = <<>>
    THEN [c EXCEPT !.state = UrlState(c),
                   !.step = Step(c, handler, input)]
    ELSE [c EXCEPT
            !.user_data.urls = us,
            !.state = CASE c.user_data.downloader = "nzbcloud" ->
                             "GET_FILENAMES_NZB"
                        [] c.user_data.downloader = "deltaleech" ->
                             "CONFIRM_DELTA_FN"
                        [] c.user_data.downloader = "bitso" ->
                             "CONFIRM_BITSO_FN"
                        [] OTHER -> "END",
            !.step = Step(c, handler, input)]

\* a text message while URLs are expected: get_urls, get_urls_bitso
GetUrls ==
    /\ conv.pc = "run"
    /\ conv.state \in {"GET_URLS", "GET_URLS_BITSO"}
    /\ \E lines \in UrlMessages :
         conv' = process_urls_and_proceed(conv, "get_urls", lines,
                                          HttpLines(lines))
    /\ UNCHANGED <<batch, split_call, up, transfer, report, fname, cleanup,
                   remux>>

\* a document while URLs are expected: handle_url_file.  The document is no
\* .txt file, is too large, cannot be fetched or decoded, or holds lines
HandleUrlFile ==
    /\ conv.pc = "run"
    /\ conv.state \in {"GET_URLS", "GET_URLS_BITSO"}
    /\ \/ \E refused \in {"not_txt", "too_big", "undecodable", "error"} :
            conv' = [conv EXCEPT
                       !.state = UrlState(conv),
                       !.step = Step(conv, "handle_url_file", <<>>)]
       \/ \E lines \in UrlMessages :
            conv' = process_urls_and_proceed(conv, "handle_url_file", lines,
                                             HttpLines(lines))
    /\ UNCHANGED <<batch, split_call, up, transfer, report, fname, cleanup,
                   remux>>

\* confirm_delta_filenames and confirm_bitso_filenames: names taken from the
\* URLs when every URL gives one, else typed by the user
confirm_filenames(c, handler, service, manual_state, choice) ==
    LET us == c.user_data.urls
        fns == [i \in 1..Len(us) |-> extract_filename_from_url(us[i])]
        failed == SelectSeq(fns, LAMBDA f : ~f.ok)
        found == SelectSeq(fns, LAMBDA f : f.ok)
        valid == [i \in 1..Len(found) |-> found[i].name]
    IN  CASE choice = "cancel" -> Cancelled(c)
          [] choice = "use_url_fn" ->
                IF valid = <<>> \/ failed # <<>>
                THEN [c EXCEPT !.state = manual_state,
                               !.step = Step(c, handler, <<>>)]
                ELSE Launch(c, handler, <<>>, service, us, valid)
          [] OTHER ->
                [c EXCEPT !.state = manual_state,
                          !.step = Step(c, handler, <<>>)]

ConfirmDeltaFilenames ==
    /\ conv.pc = "run"
    /\ conv.state = "CONFIRM_DELTA_FN"
    /\ \E choice \in {"use_url_fn", "manual_fn", "cancel"} :
         conv' = confirm_filenames(conv, "confirm_delta_filenames",
                                   "deltaleech", "GET_FILENAMES_DELTA", choice)
    /\ UNCHANGED <<batch, split_call, up, transfer, report, fname, cleanup,
                   remux>>

ConfirmBitsoFilenames ==
    /\ conv.pc = "run"
    /\ conv.state = "CONFIRM_BITSO_FN"
    /\ \E choice \in {"use_url_fn", "manual_fn", "cancel"} :
         conv' = confirm_filenames(conv, "confirm_bitso_filenames",
                                   "bitso", "GET_FILENAMES_BITSO", choice)
    /\ UNCHANGED <<batch, split_call, up, transfer, report, fname, cleanup,
                   remux>>

\* mutant: the two lengths are not compared
MismatchIgnored(us, fns_raw) == FALSE

\* "if len(urls) != len(fns_raw)"
Mismatch(us, fns_raw) == Len(us) # Len(fns_raw)

\* get_filenames_nzb, get_filenames_delta, get_filenames_bitso
get_filenames(c, service, lines) ==
    LET fns_raw == NonBlank(lines)
        us == c.user_data.urls
    IN  IF fns_raw = <<>> \/ Mismatch(us, fns_raw)
        THEN [c EXCEPT !.step = Step(c, "get_filenames", lines)]
        ELSE Launch(c, "get_filenames", lines, service, us,
                    [i \in 1..Len(fns_raw) |-> clean_filename(fns_raw[i])])

GetFilenamesNzb ==
    /\ conv.pc = "run"
    /\ conv.state = "GET_FILENAMES_NZB"
    /\ \E lines \in NameMessages :
         conv' = get_filenames(conv, "nzbcloud", lines)
    /\ UNCHANGED <<batch, split_call, up, transfer, report, fname, cleanup,
                   remux>>

GetFilenamesDelta ==
    /\ conv.pc = "run"
    /\ conv.state = "GET_FILENAMES_DELTA"
    /\ \E lines \in NameMessages :
         conv' = get_filenames(conv, "deltaleech", lines)
    /\ UNCHANGED <<batch, split_call, up, transfer, report, fname, cleanup,
                   remux>>

GetFilenamesBitso ==
    /\ conv.pc = "run"
    /\ conv.state = "GET_FILENAMES_BITSO"
    /\ \E lines \in NameMessages :
         conv' = get_filenames(conv, "bitso", lines)
    /\ UNCHANGED <<batch, split_call, up, transfer, report, fname, cleanup,
                   remux>>

\* /cancel inside a conversation
Cancel ==
    /\ conv.pc = "run"
    /\ conv.state # "END"
    /\ conv' = Cancelled(conv)
    /\ UNCHANGED <<batch, split_call, up, transfer, report, fname, cleanup,
                   remux>>

\* a task at "await asyncio.to_thread(requests.get, ...)" of its next job
TaskFetch ==
    /\ conv.pc = "run"
    /\ \E t \in 1..Len(conv.tasks) :
         /\ conv.tasks[t].phase \in {"created", "between"}
         /\ conv.tasks[t].job <= conv.tasks[t].jobs
         /\ conv' = [conv EXCEPT !.tasks[t].phase = "fetch"]
    /\ UNCHANGED <<batch, split_call, up, transfer, report, fname, cleanup,
                   remux>>

\* the fetch of the job ended: the file goes to the uploader, or the job
\* failed
TaskFetched ==
    /\ conv.pc = "run"
    /\ \E t \in 1..Len(conv.tasks), ok \in BOOLEAN :
         /\ conv.tasks[t].phase = "fetch"
         /\ conv' = IF ok
                    THEN [conv EXCEPT !.tasks[t].phase = "upload"]
                    ELSE [conv EXCEPT
                            !.tasks[t].phase = "between",
                            !.tasks[t].failed_sources =
                                Append(@, Source(t, conv.tasks[t].job)),
                            !.tasks[t].job = @ + 1]
    /\ UNCHANGED <<batch, split_call, up, transfer, report, fname, cleanup,
                   remux>>

\* "await upload_file_pyrogram(...)" returned for the last part of the job,
\* or returned False for one part
TaskUploaded ==
    /\ conv.pc = "run"
    /\ \E t \in 1..Len(conv.tasks), ok \in BOOLEAN :
         /\ conv.tasks[t].phase = "upload"
         /\ conv' = [conv EXCEPT
                       !.tasks[t].phase = "between",
                       !.tasks[t].failed_sources =
                           IF ok THEN @
                           ELSE Append(@, Source(t, conv.tasks[t].job)),
                       !.tasks[t].job = @ + 1]
    /\ UNCHANGED <<batch, split_call, up, transfer, report, fname, cleanup,
                   remux>>

\* the batch function returned and run_and_report_process reported: the
\* list, when not empty, goes to the file of the service
TaskDone ==
    /\ conv.pc = "run"
    /\ \E t \in 1..Len(conv.tasks), outcome \in WriteOutcomes,
          k \in 0..MaxFailed :
         /\ conv.tasks[t].phase \in {"created", "between"}
         /\ conv.tasks[t].job > conv.tasks[t].jobs
         /\ LET path == FailedFilePath(conv.tasks[t].service)
                r == write_failed_downloads_to_file(
                        conv.dir[path], conv.tasks[t].failed_sources,
                        conv.tasks[t].service, outcome, k)
            IN  conv' = [conv EXCEPT !.tasks[t].phase = "done",
                                     !.tasks[t].saved = r.ret,
                                     !.dir[path] = r.file]
    /\ UNCHANGED <<batch, split_call, up, transfer, report, fname, cleanup,
                   remux>>

ConvNext ==
    \/ StartDownloadConv
    \/ ChooseDownloader
    \/ GetUrls
    \/ HandleUrlFile
    \/ ConfirmDeltaFilenames
    \/ ConfirmBitsoFilenames
    \/ GetFilenamesNzb
    \/ GetFilenamesDelta
    \/ GetFilenamesBitso
    \/ Cancel
    \/ TaskFetch
    \/ TaskFetched
    \/ TaskUploaded
    \/ TaskDone

ConvSpec == ConvInit /\ [][ConvNext]_vars

\* ------------------- the remux of _split_video_dynamic_duration, step by step
\* Jobs with the same display name share full_file_path and the directory
\* <name>_parts.  remux follows up to MaxRuns such jobs, one after the other,
\* from the makedirs of step 3 to the end of the caller's upload loop.
\*   dir, files : the parts directory exists; the numbers of the segment
\*                files <name>_partNNN<ext> in it
\*   written    : the numbers of the files ffmpeg wrote in this run
\*   diff       : original_size - part_size for the first part written
\*   ret, created_parts : what the split returned ("orig", "segs" with the
\*                list, "none")
\*   passed     : the parts handed to upload_file_pyrogram, in order

\* how many segments a remux writes: none, a few, or more than 999
SegCounts == (0..MaxFew) \cup {ManySegs}

\* original_size - part_size, around the tolerance of 1 MiB
Diffs == {0 - MiB, 1 - MiB, 0, MiB - 1, MiB}

\* "abs(original_size - part_size) < 1024 * 1024"
Similar(diff) == (IF diff < 0 THEN 0 - diff ELSE diff) < MiB

\* "%03d" in output_pattern: at least three digits
PartDigits(i) ==
    IF i < 1000 THEN <<i \div 100, (i \div 10) % 10, i % 10>>
    ELSE <<i \div 1000, (i \div 100) % 10, (i \div 10) % 10, i % 10>>

\* the path of segment i from where the paths differ, as code points: the
\* digits, then the "." that starts file_ext
PartName(i) ==
    [k \in 1..Len(PartDigits(i)) |-> 48 + PartDigits(i)[k]] \o <<46>>

\* the order of str: the first differing code point decides, and a proper
\* prefix comes first
StrLess(a, b) ==
    \E k \in 1..Len(b) :
        /\ \A m \in 1..(k - 1) : m <= Len(a) /\ a[m] = b[m]
        /\ (k > Len(a) \/ a[k] < b[k])

\* glob.glob(part_pattern_glob): every segment file of the directory
Glob(fs) == SelectSeq([k \in 1..ManySegs |-> k - 1], LAMBDA i : i \in fs)

\* "created_parts = sorted(glob.glob(part_pattern_glob))"
SortedGlob(fs) ==
    SortSeq(Glob(fs), LAMBDA i, j : StrLess(PartName(i), PartName(j)))

NewRun(run, dir, fs) ==
    [pc |-> "prepare", run |-> run, dir |-> dir, files |-> fs, written |-> {},
     diff |-> 0, ret |-> "unset", created_parts |-> <<>>, passed |-> <<>>]

RemuxInit ==
    /\ BatchAtRest
    /\ split_call = Idle
    /\ up = Idle
    /\ transfer = Idle /\ conv = Idle /\ report = Idle /\ fname = Idle
    /\ cleanup = Idle
    /\ remux = NewRun(1, FALSE, {})

\* the split is over with this result
RemuxReturn(ret, dir, fs) ==
    [remux EXCEPT !.pc = "returned", !.ret = ret, !.dir = dir, !.files = fs]

\* "os.makedirs(parts_dir, exist_ok=True)"; an OSError is caught by
\* split_if_needed, which returns None
MakePartsDir ==
    /\ remux.pc = "prepare"
    /\ \E mkdir_ok \in BOOLEAN :
         remux' = IF mkdir_ok
                  THEN [remux EXCEPT !.pc = "ffmpeg", !.dir = TRUE]
                  ELSE RemuxReturn("none", remux.dir, remux.files)
    /\ UNCHANGED <<batch, split_call, up, transfer, conv, report, fname, cleanup>>

\* "split_success, _ = await _run_command(cmd, 'ffmpeg')": ffmpeg writes the
\* segments 0..n-1 over whatever is there; when it fails the directory is
\* removed with all it holds unless rmtree fails too
RunFfmpeg ==
    /\ remux.pc = "ffmpeg"
    /\ \E out \in {"ok", "fail", "raise"}, n \in SegCounts, d \in Diffs,
          rmtree_ok \in BOOLEAN :
         LET w == 0..(n - 1)
             fs == remux.files \cup w
         IN  remux' =
               CASE out = "raise" -> RemuxReturn("none", TRUE, remux.files)
                 [] out = "fail" ->
                      [RemuxReturn("none", ~rmtree_ok,
                                   IF rmtree_ok THEN {} ELSE fs)
                         EXCEPT !.written = w]
                 [] OTHER ->
                      [remux EXCEPT !.pc = "glob", !.files = fs, !.written = w,
                                    !.diff = d]
    /\ UNCHANGED <<batch, split_call, up, transfer, conv, report, fname, cleanup>>

\* step 5: the parts found, sorted; none is a failure
FindParts ==
    /\ remux.pc = "glob"
    /\ LET created_parts == SortedGlob(remux.files)
       IN  remux' =
             IF created_parts = <<>>
             THEN RemuxReturn("none", remux.dir, remux.files)
             ELSE [remux EXCEPT !.pc = "found", !.created_parts = created_parts]
    /\ UNCHANGED <<batch, split_call, up, transfer, conv, report, fname, cleanup>>

\* "if num_parts_found == 1 and os.path.exists(original_path)": a single part
\* of nearly the size of the original is dropped for the original; os.remove
\* and os.rmdir share one try block
SinglePart ==
    /\ remux.pc = "found"
    /\ \E d \in (IF remux.created_parts[1] \in remux.written
                 THEN {remux.diff} ELSE Diffs),
          remove_ok \in BOOLEAN, rmdir_ok \in BOOLEAN :
         remux' =
           IF Len(remux.created_parts) = 1 /\ Similar(d)
           THEN [RemuxReturn("orig",
                             ~(remove_ok /\ rmdir_ok),
                             IF remove_ok THEN {} ELSE remux.files)
                   EXCEPT !.created_parts = <<>>]
           ELSE RemuxReturn("segs", remux.dir, remux.files)
    /\ UNCHANGED <<batch, split_call, up, transfer, conv, report, fname, cleanup>>

\* the upload loop of the caller over the parts: k parts are sent and the
\* next one, if any, fails; a sent part is removed by the uploader when
\* delete_after_upload is set, and cleanup_split_parts follows a loop that
\* sent every part of a list of two or more
UploadParts ==
    /\ remux.pc = "returned"
    /\ \E delete_after \in BOOLEAN :
         IF remux.ret = "segs"
         THEN LET total == Len(remux.created_parts)
              IN  \E k \in (0..Min(total, MaxFew)) \cup {total} :
                    LET sent_parts ==
                            {remux.created_parts[m] : m \in 1..k}
                        all_sent == k = total
                        left == IF delete_after
                                THEN remux.files \ sent_parts ELSE remux.files
                    IN  remux' =
                          [remux EXCEPT
                             !.pc = "ended",
                             !.passed = SubSeq(remux.created_parts, 1,
                                               Min(total, k + 1)),
                             !.files = left,
                             !.dir = IF delete_after /\ all_sent /\ total > 1
                                        /\ left = {}
                                     THEN FALSE ELSE remux.dir]
         ELSE remux' = [remux EXCEPT !.pc = "ended"]
    /\ UNCHANGED <<batch, split_call, up, transfer, conv, report, fname, cleanup>>

\* a later job with the same display name is downloaded over the earlier file
\* and reaches the remux
NextRun ==
    /\ remux.pc = "ended"
    /\ remux.run < MaxRuns
    /\ remux' = NewRun(remux.run + 1, remux.dir, remux.files)
    /\ UNCHANGED <<batch, split_call, up, transfer, conv, report, fname, cleanup>>

RemuxNext ==
    \/ MakePartsDir
    \/ RunFfmpeg
    \/ FindParts
    \/ SinglePart
    \/ UploadParts
    \/ NextRun

RemuxSpec == RemuxInit /\ [][RemuxNext]_vars

\* ------------------------------------------------------------------ claims
Finished == pc \in {"returned", "raised"}

\* between two jobs: log, parts, upload_ok, sent and the disk describe the
\* job last.job, which has just ended
JobEnded == pc \in {"loop", "returned"} /\ last.job >= 1

Eligible(j) == Url(j) # <<>> /\ FileName(j) # <<>>
Occurrences(q, x) == Cardinality({k \in 1..Len(q) : q[k] = x})
Increasing(q) == \A k \in 1..(Len(q) - 1) : q[k] < q[k + 1]

\* the string a job is recorded under in failed_sources
Key(j) ==
    IF svc = "nzbcloud" /\ Url(j) = <<>> THEN NoUrlFor(FileName(j)) ELSE Url(j)

\* open(path, "wb") was reached in the job that ended
Wrote == last.cause \in {"stream", "progress", "final_message", "split", "upload"}

\* C1: called with lists of equal length, the batch function starts the fetch
\* of every job whose URL and display name are non-empty exactly once, in
\* input order, whatever happened to the jobs before it.
C1_EveryJobFetchedOnceInOrder ==
    (Finished /\ Len(urls) = Len(file_names)) =>
        /\ Increasing(fetchLog)
        /\ \A j \in 1..Len(urls) : Eligible(j) => Occurrences(fetchLog, j) = 1

\* C2: no exception raised while a job is processed ends the batch loop.
C2_NoExceptionEndsLoop == ~(pc = "raised" /\ last.outcome = "raised")

\* C3 as stated: in the returned list a job's source URL is present if and
\* only if that job did not fully complete.
C3_UrlListedIffJobIncomplete ==
    pc = "returned" =>
        \A j \in 1..NJobs : (Url(j) \in Range(result)) <=> (j \notin done)

\* C3 as amended: the returned list holds exactly the strings under which
\* some job that did not fully complete is recorded (its stripped URL, or for
\* an nzbcloud job without URL the "No URL for <name>" placeholder); a batch
\* rejected for its list lengths returns the URL list it was given; and with
\* 3 jobs of which only the fetched job 2 fails the list is [job2.url].
C3_ListedIffSomeJobIncomplete ==
    pc = "returned" =>
        IF RejectsBatch(svc, urls, file_names)
        THEN result = urls
        ELSE /\ \A j \in 1..NJobs : j \notin done => Key(j) \in Range(result)
             /\ \A s \in Range(result) :
                    \E j \in 1..NJobs : Key(j) = s /\ j \notin done
             /\ (NJobs = 3 /\ done = {1, 3} /\ 2 \in Range(fetchLog)) =>
                    result = <<Url(2)>>

\* C3 witness: three jobs, job 2 was fetched and failed, 1 and 3 completed
C3_Witness ==
    /\ pc = "returned"
    /\ Len(urls) = 3 /\ Len(file_names) = 3
    /\ done = {1, 3}
    /\ 2 \in Range(fetchLog)
    /\ result = <<Url(2)>>

\* C4: the returned failed list contains no string more than once.
C4_NoDuplicates ==
    pc = "returned" =>
        \A a \in 1..Len(result), b \in 1..Len(result) :
            result[a] = result[b] => a = b

\* C5: within one job the phases run in the order fetch, split check,
\* uploads, cleanup, one at a time, and the parts are uploaded one at a time
\* in ascending index order (cleanup only after the last part).
C5_PhaseOrder ==
    /\ log # <<>> => log[1] = Phase("fetch", 0)
    /\ \A k \in 2..Len(log) :
          /\ k = 2 => log[k] = Phase("split", 0)
          /\ k > 2 =>
                \/ log[k] = Phase("upload", k - 2) /\ k - 2 <= parts.n
                \/ /\ log[k] = Phase("cleanup", 0)
                   /\ k = Len(log)
                   /\ k = parts.n + 3
    /\ pc \in {"fetch", "stream", "split"} => log = <<Phase("fetch", 0)>>
    /\ pc = "upload" => Len(log) = part_i + 1
    /\ pc = "cleanup" => Len(log) = parts.n + 2

\* C5 witness: a job of two segments that ran all its phases
C5_Witness ==
    log = <<Phase("fetch", 0), Phase("split", 0), Phase("upload", 1),
            Phase("upload", 2), Phase("cleanup", 0)>>

\* C6: when the upload of part k returns failure, no later part is uploaded,
\* cleanup is not run, and the job is recorded as failed.
C6_FailedUploadAbortsJob ==
    \A k \in 1..Len(upload_ok) :
        ~upload_ok[k] =>
            /\ k = Len(upload_ok)
            /\ log[Len(log)] = Phase("upload", k)
            /\ JobEnded
            /\ last.outcome = "failed"
            /\ last.job \notin done
            /\ Url(last.job) \in Range(failed_sources)

\* C6 witness: segment 1 of 2 failed to upload
C6_Witness ==
    /\ parts.ret = "segs" /\ parts.n = 2
    /\ upload_ok = <<FALSE>>
    /\ JobEnded

\* C7 as stated: after a job ends failed, with delete_after_upload, the
\* downloaded source file and every segment file the split returned are
\* still on disk.
C7_FailedJobKeepsAllFiles ==
    (JobEnded /\ last.outcome = "failed" /\ delete_after_upload) =>
        /\ Wrote => file
        /\ parts.ret = "segs" => (1..parts.n) \subseteq segs

\* C7 as amended: after a job ends failed, with delete_after_upload, the
\* downloaded source file and every segment file the split returned are
\* still on disk unless that very file had already been sent to the
\* destination (the uploader deletes a file right after its send).
C7_FailedJobKeepsUnsentFiles ==
    (JobEnded /\ last.outcome = "failed" /\ delete_after_upload) =>
        /\ (Wrote /\ 0 \notin sent) => file
        /\ parts.ret = "segs" =>
              \A i \in 1..parts.n : i \notin sent => i \in segs

\* C7 witness: segment 1 was sent and deleted, segment 2 failed, the source
\* file and segment 2 are on disk
C7_Witness ==
    /\ JobEnded /\ last.outcome = "failed" /\ delete_after_upload
    /\ parts.ret = "segs" /\ parts.n = 2
    /\ upload_ok = <<TRUE, FALSE>>
    /\ segs = {2}
    /\ file

\* C8: after a job whose split returned segment files (one or more) that all
\* uploaded, with delete_after_upload, no segment file, no segment directory
\* and no source file of the job is left on disk.
C8_SplitJobLeavesNothing ==
    (JobEnded /\ last.outcome = "done" /\ parts.ret = "segs"
     /\ delete_after_upload) =>
        segs = {} /\ ~parts_dir /\ ~file

\* C9: called with lists of different lengths, a batch function performs no
\* fetch, split or upload for any job.
C9_MismatchRejectsBatch ==
    Len(urls) # Len(file_names) => fetchLog = <<>> /\ log = <<>>

\* C10: no failure of a progress edit or of the final "DL OK" message fails
\* the fetch: a body streamed to its end leads to the split check.
C10_MessageFailureNeverFailsFetch ==
    last.cause \notin {"progress", "final_message"}

\* --------------------------------------- claims on upload_file_pyrogram
\* a call of upload_file_pyrogram with uploads enabled has returned
UpReturned == up.pc = "returned" /\ up.upload_enabled

\* C11: no failure of a status or progress message changes the result of
\* upload_file_pyrogram: a send is attempted, and the value returned is
\* whether the primary or the fallback send succeeded.
C11_MessageFailureKeepsResult ==
    UpReturned =>
        /\ up.sends # <<>>
        /\ up.ret = up.sent_message

\* C12: a flood-wait of N seconds signalled by a send is slept out (at least
\* N seconds) and the send is then resumed; the flood-wait alone does not
\* make the call return failure.
C12_FloodWaitSleptAndResumed ==
    UpReturned =>
        \A k \in 1..Len(up.sends) :
            up.sends[k].outcome = "flood" =>
                /\ up.slept >= up.sends[k].wait
                /\ k < Len(up.sends)
                /\ up.sends[Len(up.sends)].outcome = "ok" => up.ret

\* C13: upload_file_pyrogram never raises to its caller.
C13_NeverRaises == up.pc # "raised"

\* C13 witness: the file was sent, the final status message then raised, and
\* the call returned False
C13_Witness ==
    /\ UpReturned
    /\ up.sent_message
    /\ up.caught = "other"
    /\ up.thumb_fetched
    /\ ~up.ret

\* C14: a primary send in Video or Audio mode that raises a content/format
\* error is followed by exactly one more send, as Document, whose success
\* makes the call return True; a Document send that raises it is followed by
\* no send and the call returns False; no call sends more than twice.
C14_OneFallbackAsDocument ==
    UpReturned =>
        /\ Len(up.sends) <= 2
        /\ (up.sends # <<>> /\ up.sends[1].outcome = "format") =>
              IF up.sends[1].mode # "Document"
              THEN /\ Len(up.sends) = 2
                   /\ up.sends[2].mode = "Document"
                   /\ up.sends[2].outcome = "ok" => up.ret
              ELSE Len(up.sends) = 1 /\ ~up.ret

\* C15: once the send succeeded and delete_after_upload is set, neither a
\* failure to delete the local file nor a failure to report the outcome of
\* the deletion changes the result: the call returns True.
C15_DeletionNeverFailsUpload ==
    (UpReturned /\ up.rm # "none") => up.ret

\* C16: with upload_enabled false the call returns True and has sent
\* nothing, fetched no thumbnail, sent no status message and deleted nothing.
C16_DisabledIsNoOp ==
    (up.pc = "returned" /\ ~up.upload_enabled) =>
        /\ up.ret
        /\ up.sends = <<>>
        /\ ~up.thumb_fetched /\ ~up.thumb_file
        /\ ~up.messaged
        /\ up.file /\ up.rm = "none"

\* C16 witness: a disabled call returned although a thumbnail URL and the
\* deletion after upload were configured
C16_Witness ==
    /\ up.pc = "returned" /\ ~up.upload_enabled
    /\ up.thumbnail_url /\ up.delete_after_upload
    /\ up.ret

\* C17: no temporary thumbnail file created during the call exists when the
\* call returns, and a failed thumbnail fetch does not fail the upload.
C17_NoThumbnailLeftBehind ==
    up.pc = "returned" =>
        /\ ~up.thumb_file
        /\ (up.thumb_fetched /\ ~up.temp_thumb_path /\ up.sent_message
            /\ up.caught = "none") => up.ret

\* ------------------------------------------- claims on split_if_needed
\* a call of split_if_needed on an existing file has returned
SplitReturned == split_call.pc = "returned" /\ split_call.exists

\* C18: for a file of size <= SPLIT_CHECK_SIZE split_if_needed returns the
\* original file and runs no external process; for a larger file it enters
\* the ffmpeg split path (ffprobe is run) exactly when the file is a video and
\* the upload mode is Video, and otherwise returns None with no process run.
C18_SizeGate ==
    SplitReturned =>
        LET e == split_call.env
            r == split_call.parts
            splits == e.is_video /\ e.upload_mode = "Video"
        IN  /\ e.size <= SPLIT_CHECK_SIZE => r.ret = "orig" /\ r.procs = <<>>
            /\ (e.size > SPLIT_CHECK_SIZE /\ splits) =>
                  r.procs # <<>> /\ Head(r.procs) = "ffprobe"
            /\ (e.size > SPLIT_CHECK_SIZE /\ ~splits) =>
                  r.ret = "none" /\ r.procs = <<>>

\* C18 witness: a video one byte above the threshold, in Video mode, was cut
\* into two parts
C18_Witness ==
    /\ SplitReturned
    /\ split_call.env.size = SPLIT_CHECK_SIZE + 1
    /\ split_call.env.is_video /\ split_call.env.upload_mode = "Video"
    /\ split_call.parts.ret = "segs" /\ split_call.parts.n = 2
    /\ split_call.parts.procs = <<"ffprobe", "ffmpeg">>

\* C19: whenever split_if_needed returns the original file as the single
\* artifact, the size of that file is at most the destination ceiling,
\* 2000 MiB.
C19_UnsplitFileFitsCeiling ==
    (SplitReturned /\ split_call.parts.ret = "orig") =>
        split_call.env.size <= 2000 * MiB

\* C20: whenever the video split fails, split_if_needed returns None and the
\* parts directory made for the split does not exist any more.
C20_FailedSplitRemovesDir ==
    (SplitReturned /\ split_call.parts.ret = "none") => ~split_call.parts.dir

\* C21: whenever ffmpeg was run for a file whose probed bit rate is b > 0,
\* the -segment_time it was given is max(10, k), k being the whole number of
\* seconds with k * b <= 1800 MiB * 8 < (k + 1) * b (both sides divided by 8
\* here, the rates being bytes per second); and when the probe gave no usable
\* bit rate the split returns None and ffmpeg was never run.  (The first
\* conjunct under k keeps the products within 32 bits.)
C21_SegmentDuration ==
    SplitReturned =>
        LET e == split_call.env
            r == split_call.parts
            ran == \E i \in DOMAIN r.procs : r.procs[i] = "ffmpeg"
            ran_probe == \E i \in DOMAIN r.procs : r.procs[i] = "ffprobe"
        IN  /\ ran =>
                \E k \in 0..(2 * TARGET_SPLIT_SIZE_MB) :
                    /\ k <= 2147483647 \div e.byte_rate
                    /\ k * e.byte_rate <= TARGET_SPLIT_SIZE_MB * MiB
                    /\ TARGET_SPLIT_SIZE_MB * MiB - k * e.byte_rate < e.byte_rate
                    /\ r.segment_time = IF k > 10 THEN k ELSE 10
            /\ (ran_probe /\ e.probe # "ok") => r.ret = "none" /\ ~ran

\* C21 witness: a 2 Gibit/s video was cut with the minimum segment time of
\* 10 seconds, the computed one being 7
C21_Witness ==
    /\ SplitReturned
    /\ split_call.env.byte_rate = 256 * MiB
    /\ split_call.parts.procs = <<"ffprobe", "ffmpeg">>
    /\ split_call.parts.ret = "segs"
    /\ split_call.parts.segment_time = 10

\* ------------------------------------------- claims on the progress edits
\* C22: within one transfer two edit requests are never closer than the
\* throttle interval (5 s for a download, 6 s for an upload), whatever the
\* earlier requests came to, and the first callback of a transfer whose status
\* message exists requests an edit.
C22_OneEditPerInterval ==
    transfer.pc # "idle" =>
        /\ transfer.requests >= 2 => transfer.gap >= Throttle(transfer.kind)
        /\ (transfer.callbacks >= 1 /\ transfer.had_status) =>
              transfer.first_reported

\* ---------------------------------------------- claims on clean_filename
\* C27: cleaning a cleaned name changes nothing:
\* clean_filename(clean_filename(x)) = clean_filename(x) for every x.
C27_CleanIsIdempotent ==
    fname.pc = "twice" => fname.twice = fname.once

\* C28: every result of clean_filename has between 1 and 250 characters, none
\* of them one of \ / : * ? " < > |, and it is "downloaded_file" when the
\* argument is empty or made of spaces, dots and underscores only.
C28_CleanNameIsSafe ==
    fname.pc \in {"once", "twice"} =>
        /\ Len(fname.once) \in 1..250
        /\ \A i \in 1..Len(fname.once) : fname.once[i] \notin Forbidden
        /\ (\A i \in 1..Len(fname.input) : fname.input[i] \in {" ", ".", "_"})
              => fname.once = DOWNLOADED_FILE

\* C28 witness: a name longer than the limit that holds a "/" was cut to 250
\* characters
C28_Witness ==
    /\ fname.pc = "once"
    /\ Len(fname.input) > 250
    /\ \E i \in 1..Len(fname.input) : fname.input[i] = "/"
    /\ Len(fname.once) = 250

\* ------------------------------------------ claims on cleanup_split_parts
\* C30: when a call of cleanup_split_parts on two or more parts has returned
\* (it has no other exit), it has attempted to delete every part that
\* existed, then the parts directory if it existed, then the original file if
\* it existed, in this order, whichever of these deletions failed.
C30_CleanupIsBestEffort ==
    (cleanup.pc = "returned" /\ cleanup.n > 1) =>
        LET existing == SelectSeq([i \in 1..cleanup.n |-> i],
                                  LAMBDA i : i \in cleanup.present)
        IN  cleanup.attempts =
              [k \in 1..Len(existing) |-> <<"part", existing[k]>>]
              \o (IF cleanup.dir THEN <<<<"dir", 0>>>> ELSE <<>>)
              \o (IF cleanup.orig THEN <<<<"original", 0>>>> ELSE <<>>)

\* C30 witness: the first of three parts could not be deleted; the two others,
\* the directory and the original were attempted after it
C30_Witness ==
    /\ cleanup.pc = "returned"
    /\ cleanup.n = 3
    /\ cleanup.left.present = {1}
    /\ cleanup.attempts = <<<<"part", 1>>, <<"part", 2>>, <<"part", 3>>,
                            <<"dir", 0>>, <<"original", 0>>>>

\* --------------------------------------- claims on the report of a batch
\* C25: when run_and_report_process has ended a call whose batch function
\* returned a non-empty list, it has called write_failed_downloads_to_file,
\* and, the file system allowing the write, failed_downloads_<service_name>.txt
\* holds one "#" header line followed by exactly the sources of the list, one
\* per line, in list order; the summary sent gives their number.  When the
\* list is empty the function was not called and the summary sent says that
\* all items succeeded.
C25_FailedListIsWrittenAndCounted ==
    (report.pc = "done" /\ ~report.raised) =>
        LET l == report.failed_sources
            path == <<"failed_downloads_", report.service_name, ".txt">>
            summaries == {i \in 1..Len(report.msgs) :
                             report.msgs[i].kind = "finished"}
        IN  /\ l # <<>> =>
                /\ report.wrote
                /\ report.saved =>
                      /\ report.dir[path].exists
                      /\ report.dir[path].lines =
                           << <<"# Failed URLs for ", report.service_name>> >>
                           \o l
                /\ \A i \in summaries :
                      /\ ~report.msgs[i].all_ok
                      /\ report.msgs[i].failed = Len(l)
                      /\ report.msgs[i].saved = report.saved
            /\ l = <<>> =>
                /\ ~report.wrote
                /\ \A i \in summaries : report.msgs[i].all_ok

\* C25 witness: a list of two sources was saved and the summary was sent
C25_Witness ==
    /\ report.pc = "done"
    /\ Len(report.failed_sources) = 2
    /\ report.saved
    /\ report.msgs # <<>> /\ report.msgs[1].kind = "finished"

\* C26: two calls of write_failed_downloads_to_file with the same list and
\* the same name that both return the path leave the same file: the second
\* overwrites what the first wrote.
C26_WriteIsIdempotent ==
    report.pc # "idle" =>
        \A i \in 1..Len(report.writes), j \in 1..Len(report.writes) :
            (/\ i < j
             /\ report.writes[i].items = report.writes[j].items
             /\ report.writes[i].name = report.writes[j].name
             /\ report.writes[i].ret /\ report.writes[j].ret) =>
                report.writes[j].file = report.writes[i].file

\* C26 witness: the same list of two sources was written twice for the same
\* service
C26_Witness ==
    /\ report.pc = "send"
    /\ Len(report.writes) = 2
    /\ report.writes[1].items = report.writes[2].items
    /\ Len(report.writes[1].items) = 2
    /\ report.writes[1].name = report.writes[2].name
    /\ report.writes[1].ret /\ report.writes[2].ret

\* ------------------------------------------- claims on the conversation
\* C23: at no time are the network operations (a fetch or an upload) of two
\* jobs in progress together, the jobs of different batches started from the
\* same chat included.
C23_OneJobOnTheNetwork ==
    conv.pc # "idle" =>
        Cardinality({t \in 1..Len(conv.tasks) :
                        conv.tasks[t].phase \in {"fetch", "upload"}}) <= 1

\* the handler that just ran was given no usable URL, or a number of names
\* other than the number of URLs stored
NoUrlGiven ==
    /\ conv.step.handler \in {"get_urls", "handle_url_file"}
    /\ \A i \in 1..Len(conv.step.input) :
          LET url == Lower(Strip(conv.step.input[i]))
          IN  url = <<>> \/ url[1] \notin {"http://", "https://"}
CountMismatch ==
    /\ conv.step.handler = "get_filenames"
    /\ Cardinality({i \in 1..Len(conv.step.input) :
                       Strip(conv.step.input[i]) # <<>>})
          # Len(conv.step.stored)

\* what C29 says of a handler that rejects its input, and of the number of
\* batches of a conversation
RejectedInputChangesNothing ==
    /\ (NoUrlGiven \/ CountMismatch) =>
          conv.state = conv.step.from /\ ~conv.step.launched
    /\ conv.launched <= 1

\* C29 as stated: a batch is started only with a non-empty URL list, every
\* URL of which starts with http:// or https://, and as many names as URLs;
\* an empty URL list or a count mismatch leaves the conversation in its state
\* and starts nothing; a conversation starts at most one batch.
C29_LaunchOnlyOnHttpUrls ==
    conv.pc # "idle" =>
        /\ conv.step.launched =>
              /\ conv.step.urls # <<>>
              /\ \A i \in 1..Len(conv.step.urls) :
                    conv.step.urls[i][1] \in {"http://", "https://"}
              /\ Len(conv.step.names) = Len(conv.step.urls)
        /\ RejectedInputChangesNothing

\* C29 amended: the same, every URL starting with http:// or https:// once
\* the white space around it is removed and it is put in lower case.
C29_LaunchOnlyOnValidInput ==
    conv.pc # "idle" =>
        /\ conv.step.launched =>
              /\ conv.step.urls # <<>>
              /\ \A i \in 1..Len(conv.step.urls) :
                    LET url == Lower(Strip(conv.step.urls[i]))
                    IN  url # <<>> /\ url[1] \in {"http://", "https://"}
              /\ Len(conv.step.names) = Len(conv.step.urls)
        /\ RejectedInputChangesNothing

\* C29 witness: a second conversation has started its batch with two URLs and
\* the two names typed for them
C29_Witness ==
    /\ conv.pc = "run"
    /\ Len(conv.tasks) = 2
    /\ conv.step.launched
    /\ conv.step.handler = "get_filenames"
    /\ Len(conv.step.urls) = 2
    /\ Len(conv.step.names) = 2
    /\ conv.launched = 1

\* ----------------------------------------------- claims on termination
\* every job of the batch is done or is recorded in the list returned
EveryJobSettled ==
    \A j \in 1..NJobs : j \in done \/ Key(j) \in Range(result)

\* C24: when every external call returns in the end, every job of the batch
\* reaches Done or Failed (recorded in failed_sources) and the batch function
\* returns its list (which run_and_report_process then reports).
C24_BatchReturnsWithEveryJobSettled ==
    <>(pc = "returned" /\ EveryJobSettled)

\* ---------------------------------------------------------------- C31
\* the causes with which the try block of the fetch is left by an exception
FetchCauses == {"http", "stream", "progress", "final_message"}

\* the job that ended last is still the one the phase log belongs to
LastJobIsCurrent ==
    /\ fetchLog # <<>>
    /\ last.job = fetchLog[Len(fetchLog)]

\* C31: requests.get is called at most once for each job of a batch, and a
\* job whose fetch failed is given up: the loop has moved past it (or the
\* batch function was left), and neither the split check nor an upload was
\* started for it.
C31_SingleAttempt ==
    /\ \A j \in 1..Len(urls) : Occurrences(getLog, j) <= 1
    /\ (last.outcome \in {"failed", "raised"} /\ last.cause \in FetchCauses
        /\ LastJobIsCurrent) =>
          /\ \A k \in 1..Len(log) : log[k][1] = "fetch"
          /\ parts = NoParts /\ upload_ok = <<>> /\ sent = {}
          /\ last.job \in Range(getLog)
          /\ pc = "raised" \/ idx > last.job

\* two jobs were fetched, the first completed and the second failed in the
\* GET: the batch is back at the top of the loop
C31_Witness ==
    /\ pc = "loop"
    /\ getLog = <<1, 2>>
    /\ 1 \in done
    /\ last.job = 2 /\ last.outcome = "failed" /\ last.cause = "http"

\* ---------------------------------------------------------------- C32
\* C32: the list of segment files the video split returns is in ascending
\* order of the segment number, whatever the number of segments.
C32_AscendingNumericOrder ==
    (remux.pc = "returned" /\ remux.ret = "segs") =>
        \A k \in 1..(Len(remux.created_parts) - 1) :
            remux.created_parts[k] < remux.created_parts[k + 1]

\* ---------------------------------------------------------------- C33
\* C33: when the remux wrote exactly one segment, the split returns the
\* original file if the sizes differ by less than 1 MiB, and then neither the
\* segment file nor the segment directory is left; otherwise it returns that
\* segment alone.
C33_SinglePartRule ==
    (remux.pc = "returned" /\ remux.ret # "none" /\ remux.written = {0}) =>
        IF Similar(remux.diff)
        THEN remux.ret = "orig" /\ 0 \notin remux.files /\ ~remux.dir
        ELSE remux.ret = "segs" /\ remux.created_parts = <<0>>

\* ---------------------------------------------------------------- C39
\* C39: every file in the list the video split returns, and every file the
\* caller hands to the uploader, was written by the remux of that split.
C39_OnlyOwnSegments ==
    /\ (remux.pc = "returned" /\ remux.ret = "segs") =>
          Range(remux.created_parts) \subseteq remux.written
    /\ remux.pc = "ended" => Range(remux.passed) \subseteq remux.written

\* ---------------------------------------------------------------- C34
\* C34: with uploads disabled and delete_after_upload set nothing is sent, so
\* nothing is deleted: while a job whose fetch succeeded is in the pipeline
\* or has just ended, its source file is on disk, and so is every segment
\* file its split returned.
C34_NothingDeletedWhenUploadsOff ==
    (~upload_enabled /\ delete_after_upload) =>
        /\ parts.ret \in {"orig", "segs"} => file
        /\ parts.ret = "segs" => segs = 1..parts.n

\* ---------------------------------------------------------------- C35
\* C35: the fallback is entered only after the send in the configured mode
\* was called and raised an error of the class the inner except clause
\* names, and an enabled upload never returns without a send having been
\* called.
C35_FallbackOnlyAfterFailedSend ==
    /\ up.pc = "fallback" =>
          /\ Len(up.sends) = 1
          /\ up.sends[1].mode = AttemptedMode(up.upload_mode)
          /\ up.sends[1].outcome = "format"
    /\ (up.pc \in {"returned", "raised"} /\ up.messaged) => up.sends # <<>>

\* ---------------------------------------------------------------- C36
\* the batch side of C36: with uploads enabled, a job counted as done had
\* every artifact of its split delivered
DoneJobWasDelivered ==
    (upload_enabled /\ JobEnded /\ last.outcome = "done") =>
        sent = (IF parts.ret = "orig" THEN {0} ELSE 1..parts.n)

\* C36: with uploads enabled, upload_file_pyrogram returns True only when a
\* send (in the configured mode or the fallback) returned a message: the
\* last send called is the one that succeeded, and sent_message holds it.
C36_SuccessMeansSent ==
    (UpReturned /\ up.ret) =>
        /\ up.sent_message
        /\ up.sends # <<>>
        /\ up.sends[Len(up.sends)].outcome = "ok"
        /\ \A k \in 1..(Len(up.sends) - 1) : up.sends[k].outcome # "ok"

\* True returned after the configured mode failed and the fallback delivered
C36_Witness ==
    /\ UpReturned /\ up.ret
    /\ Len(up.sends) = 2
    /\ up.sends[1].outcome = "format" /\ up.sends[2].outcome = "ok"

\* ---------------------------------------------------------------- C37
\* C37: when a batch has ended and been reported (the batch function
\* returned, and the write of the list, if there was one, succeeded), the
\* failure file of its service, if there is one, holds the header and exactly
\* the failed sources of that batch.
C37_FileIsOfLastBatch ==
    (report.pc = "done" /\ ~report.raised /\ (report.wrote => report.saved)) =>
        LET f == report.dir[FailedFilePath(report.service_name)]
        IN  f.exists =>
              f.lines = FailedFileLines(report.failed_sources,
                                        report.service_name)

\* ---------------------------------------------------------------- C38
\* both tasks have ended, each with failed jobs and a list that was saved
BothSavedFailures(a, b) ==
    /\ conv.tasks[a].phase = "done" /\ conv.tasks[b].phase = "done"
    /\ conv.tasks[a].failed_sources # <<>> /\ conv.tasks[a].saved
    /\ conv.tasks[b].failed_sources # <<>> /\ conv.tasks[b].saved

\* C38: when two batches of one service ran at the same time and both ended
\* with failed jobs, the failure file of the service lists the failed sources
\* of both.
C38_NoFailureRecordLost ==
    conv.pc # "idle" =>
        \A a \in 1..Len(conv.tasks), b \in 1..Len(conv.tasks) :
            (a \in conv.tasks[b].during
             /\ conv.tasks[a].service = conv.tasks[b].service
             /\ BothSavedFailures(a, b)) =>
                LET f == conv.dir[FailedFilePath(conv.tasks[a].service)]
                IN  /\ f.exists
                    /\ Range(conv.tasks[a].failed_sources) \subseteq Range(f.lines)
                    /\ Range(conv.tasks[b].failed_sources) \subseteq Range(f.lines)

====
